---- MODULE Spec2Model ----
(***************************************************************************)
(* Per-account protocol engine of qq-farm-bot (internal/bot).              *)
(*                                                                         *)
(* Two specifications share one set of variables:                          *)
(*   Spec     the Supervisor (Instance): Start, connectAndRun, watchdog,   *)
(*            Stop, over several Network objects whose Login RPC and       *)
(*            connection failures are taken as events;                     *)
(*   SpecNet  one Network object in detail: sendRequestWithTimeout, the    *)
(*            timers, readLoop/handleMessage, the heartbeat task, a        *)
(*            worker, Login, and Close as called by connectAndRun and by   *)
(*            Stop.                                                        *)
(* FairSpec and FairNet are Spec and SpecNet with the fairness the Go      *)
(* scheduler gives goroutines and timers.                                  *)
(*                                                                         *)
(* Further specifications over the same variables follow one part each:    *)
(*   SpecRetry  the watchdog's reconnect loop at length;                   *)
(*   SpecTasks  SpecNet with pingLoop; SpecMgr  Manager.StartBot;          *)
(*   SpecWrite  SpecNet with the insert into the pending table and the     *)
(*              write of the frame as separate steps;                      *)
(*   SpecHb     the heartbeat task and its log entries, its RPC an event;  *)
(*   SpecFarm, SpecFert, SpecTask  one tick of the Farm, Fertilizer and    *)
(*              Task workers, the server's replies as inputs;              *)
(*   SpecLog    the Logger and its subscribers.                            *)
(***************************************************************************)
EXTENDS Integers, Sequences, FiniteSets, TLC

\* ------------------------------------------------------------------ bounds
\* Network objects one instance creates in a run (NewNetwork calls).
MaxSessions == 2
\* Instance objects made for the account by StartBot
MaxInsts == 2
\* lands in each list of analyzeLands, and lands eligible for unlock/upgrade
MaxTiles == 1
\* the user's gold and the price of a seed
MaxGold == 2
MaxPrice == 2
\* clientSeq values the detailed session allocates.
MaxSeq == 4
\* FertilizerWorker: the account's FertilizerBuyDailyLimit, the coupons a
\* Bag reply shows, and the calendar days followed after the first
MaxLimit == 2
MaxCoupons == 2
MaxDays == 1
\* packs followed per day (a limit of 0 puts no bound on them)
MaxBought == 5
\* tasks in one TaskInfo reply, over its three lists
MaxTasks == 2
\* Logger: channels made by Subscribe, goroutines that call emit, and the
\* buffer of a subscriber channel (100 in the code)
MaxSubs == 2
MaxEmitters == 2
MaxBuffer == 1

\* ------------------------------------------------------- program constants
DisconnectUnknown == 0
DisconnectPingFailed == 1
DisconnectReadError == 2
DisconnectKickout == 3
DisconnectHeartbeatTimeout == 4
DisconnectLoginFailed == 5
DisconnectLoginTimeout == 6
DisconnectClosed == 7
maxHeartbeatFailures == 3
\* seconds
reconnectBackoffInit == 2
reconnectBackoffMax == 60
maxLoginTimeoutAttempts == 3

Reasons == DisconnectUnknown..DisconnectClosed
Sessions == 1..MaxSessions
Seqs == 1..MaxSeq
\* inst.net == nil
NoNet == 0
\* no entry in m.instances
NoInst == 0
\* the Instance followed in detail, and the later ones
InstId == 1
Others == (InstId + 1)..MaxInsts
\* The Network object SpecNet follows in detail.
NetId == 1

VARIABLES
  \* Instance fields (instance.go:47-60)
  running, err, instNet, stopCh,
  \* Instance.Start and connectAndRun: position, local net, returned error
  startPc, crPc, crCaller, crNet, crErr,
  \* watchdog: position and locals
  wdPc, wdNet, wdReason, backoff, loginTimeoutCount,
  \* Stop: position (it holds inst.mu throughout)
  stopPc,
  \* Network.Close in progress, per caller ("stop", "cr"): position, receiver
  closePc, closeNet,
  \* Network objects: number created, and per object the fields
  \* disconnectOnce, disconnectReason, ctx (cancelled or not), conn ("nil",
  \* "open", "closed"), and whether the heartbeat task and the five workers
  \* started on it are not started ("off"), running ("run") or have all
  \* returned ("exit")
  nNets, disconnectOnce, disconnectReason, ctxDone, conn, tasks,
  \* pingLoop of the detailed Network object (NetId): not started ("off"), in
  \* its select ("run"), returned after a failed write ("failed") or on
  \* ctx.Done ("exit")
  pingPc,
  \* history per Network object: the reason of the first disconnectWithReason
  \* call, and the number of assignments to disconnectReason
  firstAttempt, reasonWrites,
  \* the detailed Network object (NetId): clientSeq counter and the keys of
  \* the pending table
  clientSeq, pending,
  \* callers of sendRequestWithTimeout: position, seq and returned result, and
  \* the call's locals ch (the one-slot result channel) and timer (running or
  \* not)
  call, ch, timer,
  \* readLoop: reading, or returned
  rlPc,
  \* the heartbeat task's and a worker's position; heartbeat's
  \* consecutiveFailures
  hbPc, wkPc, consecutiveFailures,
  \* history: results sent to the channel of each caller's current call;
  \* seqs that were pending when a Kickout notify was handled, until their
  \* caller is done with the call
  sent, kickInFlight,
  \* Manager, for the one account of the instance: the number of Instance
  \* objects made for it by NewInstance (the first is the instance followed
  \* in detail), the entry m.instances[account.ID] (NoInst: none), StartBot's
  \* position while it holds m.mu and what the last StartBot returned, and
  \* what is followed of the later Instance objects: not made ("none"),
  \* running, or not running ("down")
  nInsts, instances, sbPc, sbRet, others,
  \* the Farm worker's unit of work (checkFarm): its position, the index of
  \* the loop it is in, the RPC it is blocked in ("none": not in one), and
  \* its locals: the number of lands autoUnlockAndUpgrade finds eligible,
  \* whether an unlock or upgrade succeeded, the sizes of the lists of
  \* analyzeLands, whether Harvest succeeded, len(toLant), planted
  fPc, fIdx, fCall, fEligible, fChanged, fStatus, fHarvested, fToPlant,
  fPlanted,
  \* history: the RPCs issued so far in the current checkFarm, in order; the
  \* positions in toLant of the lands whose Plant request succeeded, and of
  \* the lands a Fertilize request was issued for
  fLog, fPlantOk, fFert,
  \* FertilizerWorker objects made so far (one per connectAndRun), and the
  \* fields of the current one: cfg.FertilizerBuyDailyLimit, dailyBuyCount,
  \* dailyDate, and whether lastBuyTime is less than buyCooldown ago; its
  \* position in runFertilizerTask and the coupon count of the Bag reply it
  \* holds; the calendar day; history: packs bought for the account on that
  \* day by all its workers
  nWorkers, fwLimit, dailyBuyCount, dailyDate, lastBuyRecent, fwPc, fwCoupons,
  today, boughtToday,
  \* TaskWorker.checkAndClaim: its position, the TaskInfo reply it got
  \* (NoReply: none, or no TaskInfo in it), its local claimable as indices
  \* into allTasks, the index of the claim loop; history: the tasks a
  \* ClaimTaskReward request was issued for in this tick, in order
  tkPc, tkReply, tkClaimable, tkIdx, tkLog,
  \* Logger: the keys of l.subscribers; per channel made by Subscribe whether
  \* it is not made yet ("none"), open or closed, the number of entries in
  \* its buffer, and the position of the Unsubscribe call on it; per emitting
  \* goroutine its position in emit and the channels its range loop has
  \* still to visit; history: a send was executed on a closed channel
  subscribers, lgChan, lgBuf, lgUnsub, lgEmit, lgPanic,
  \* the heartbeat task with its RPC taken as an event: history, the WARN
  \* entries tagged "xintiao" it has logged since it started or since its
  \* last successful heartbeat, by message; and len(n.pending)
  hbWarns, nPending,
  \* Network.serverSeq; handleMessage's position in its compare-and-swap
  \* loop, meta.ServerSeq of the envelope it handles (or handled last) and
  \* its local old; history: the largest positive ServerSeq of the envelopes
  \* received so far (0: none), and Meta.ServerSeq of the request built last
  serverSeq, hmPc, hmIn, hmOld, maxSeen, reqSeq,
  \* LandCache: whether mu is write-locked and the number of read locks held
  \* on it; the fields totalLands, unlockedLands, lands, harvestInfos, each
  \* as the number of the Update call that wrote it (0: the zero value of
  \* NewLandCache); the position of the Update call in progress and the
  \* number of Update calls made; per goroutine that calls Get its position
  \* in the call and the values it has read
  lcWriter, lcReaders, lcFields, upPc, nUpdates, gtPc, gtRet,
  \* autoPlant from its call of findBestSeed on: its position, len(toLant),
  \* bestSeed.Price, the gold it read from UserState and whether it has read
  \* it, the index of the plant loop and planted; history: Num of the
  \* BuyGoods request issued in this call (0: none issued) and the number of
  \* Plant requests issued in it
  apPc, apToLant, apPrice, apGold, apGoldRead, apIdx, apPlanted, apBought,
  apPlants,
  \* findBestSeed: its position; reply.GoodsList of the ShopInfo reply, the
  \* level it read from UserState, cfg.ForceLowest and the seed ids of
  \* GetPlantingRecommendation; the position in GoodsList of the goods it
  \* returned (0: nil, with an error)
  fbPc, fbGoods, fbLevel, fbForce, fbRec, fbRet,
  \* useSurplusFertilizer: its position; the bag it was given, as the count
  \* by item id; cfg.FertilizerTargetCount; toUse as the count by item id (0:
  \* not in the batch); its locals normalHours, organicHours and totalItems
  \* after the two loops
  sfPc, sfBag, sfTarget, sfUse, sfNormalHours, sfOrganicHours, sfTotalItems,
  \* UserState (GID, Name, Level, Exp, Gold); the position of the goroutine
  \* that handles inbound messages, the message it is handling, and whether
  \* Login has stored its reply in the UserState
  state, usPc, usMsg, usLoggedIn

instVars == <<running, err, instNet, stopCh>>
crVars == <<startPc, crPc, crCaller, crNet, crErr>>
wdVars == <<wdPc, wdNet, wdReason, backoff, loginTimeoutCount>>
stopVars == <<stopPc>>
closeVars == <<closePc, closeNet>>
reasonVars == <<disconnectOnce, disconnectReason, firstAttempt, reasonWrites>>
netVars == <<nNets, ctxDone, conn>>
taskVars == <<tasks, pingPc>>
mgrVars == <<nInsts, instances, sbPc, sbRet, others>>
farmVars == <<fPc, fIdx, fCall, fEligible, fChanged, fStatus, fHarvested,
              fToPlant, fPlanted, fLog, fPlantOk, fFert>>
fTiles == <<fPlantOk, fFert>>
fertVars == <<nWorkers, fwLimit, dailyBuyCount, dailyDate, lastBuyRecent,
              fwPc, fwCoupons, today, boughtToday>>
tcVars == <<tkPc, tkReply, tkClaimable, tkIdx, tkLog>>
logVars == <<subscribers, lgChan, lgBuf, lgUnsub, lgEmit, lgPanic>>
hbLogVars == <<hbWarns, nPending>>
tableVars == <<pending, ch, timer, sent>>
muxVars == <<clientSeq, tableVars, call, rlPc, hbPc, wkPc,
             consecutiveFailures, kickInFlight>>
seqVars == <<serverSeq, hmPc, hmIn, hmOld, maxSeen, reqSeq>>
cacheVars == <<lcWriter, lcReaders, lcFields, upPc, nUpdates, gtPc, gtRet>>
plantVars == <<apPc, apToLant, apPrice, apGold, apGoldRead, apIdx, apPlanted,
               apBought, apPlants>>
seedVars == <<fbPc, fbGoods, fbLevel, fbForce, fbRec, fbRet>>
surplusVars == <<sfPc, sfBag, sfTarget, sfUse, sfNormalHours, sfOrganicHours,
                 sfTotalItems>>
userVars == <<state, usPc, usMsg, usLoggedIn>>
dataVars == <<seqVars, cacheVars, plantVars, seedVars, surplusVars, userVars>>
nonSeqVars == <<instVars, crVars, wdVars, stopVars, closeVars, reasonVars,
                netVars, taskVars, muxVars, mgrVars, farmVars, fertVars,
                tcVars, logVars, hbLogVars, cacheVars, plantVars, seedVars,
                surplusVars, userVars>>
nonCacheVars == <<instVars, crVars, wdVars, stopVars, closeVars, reasonVars,
                  netVars, taskVars, muxVars, mgrVars, farmVars, fertVars,
                  tcVars, logVars, hbLogVars, seqVars, plantVars, seedVars,
                  surplusVars, userVars>>
nonPlantVars == <<instVars, crVars, wdVars, stopVars, closeVars, reasonVars,
                  netVars, taskVars, muxVars, mgrVars, farmVars, fertVars,
                  tcVars, logVars, hbLogVars, seqVars, cacheVars, seedVars,
                  surplusVars, userVars>>
nonSeedVars == <<instVars, crVars, wdVars, stopVars, closeVars, reasonVars,
                 netVars, taskVars, muxVars, mgrVars, farmVars, fertVars,
                 tcVars, logVars, hbLogVars, seqVars, cacheVars, plantVars,
                 surplusVars, userVars>>
nonSurplusVars == <<instVars, crVars, wdVars, stopVars, closeVars,
                    reasonVars, netVars, taskVars, muxVars, mgrVars,
                    farmVars, fertVars, tcVars, logVars, hbLogVars, seqVars,
                    cacheVars, plantVars, seedVars, userVars>>
nonUserVars == <<instVars, crVars, wdVars, stopVars, closeVars, reasonVars,
                 netVars, taskVars, muxVars, mgrVars, farmVars, fertVars,
                 tcVars, logVars, hbLogVars, seqVars, cacheVars, plantVars,
                 seedVars, surplusVars>>
workerVars == <<fertVars, tcVars, logVars, hbLogVars, dataVars>>
vars == <<instVars, crVars, wdVars, stopVars, closeVars, reasonVars, netVars,
          taskVars, muxVars, mgrVars, farmVars, workerVars>>

\* ------------------------------------------------------- DisconnectReason

\* DisconnectReason.String
String(r) ==
  CASE r = DisconnectPingFailed -> "ping_failed"
    [] r = DisconnectReadError -> "read_error"
    [] r = DisconnectKickout -> "kickout"
    [] r = DisconnectHeartbeatTimeout -> "heartbeat_timeout"
    [] r = DisconnectLoginFailed -> "login_failed"
    [] r = DisconnectLoginTimeout -> "login_timeout"
    [] r = DisconnectClosed -> "closed"
    [] OTHER -> "unknown"

\* Retryable without its Kickout case.
RetryableKickout(r) ==
  CASE r = DisconnectClosed -> FALSE
    [] OTHER -> TRUE

\* DisconnectReason.Retryable
Retryable(r) ==
  CASE r = DisconnectKickout -> FALSE
    [] r = DisconnectClosed -> FALSE
    [] OTHER -> TRUE

\* The published error strings.  The Chinese words of the source are written
\* in pinyin: "duankai" is the source's word for "disconnected", and
\* "denglu chaoshi da shangxian" its words for "login timeout limit reached".
ErrNone == ""
ErrConnect == "ws dial: connection refused"
ErrLogin == "login"
\* fmt.Sprintf("<login timeout limit reached> (%d/%d)", loginTimeoutCount,
\* maxLoginTimeoutAttempts)
ErrLoginLimit(n) ==
  "denglu chaoshi da shangxian (" \o ToString(n) \o "/"
    \o ToString(maxLoginTimeoutAttempts) \o ")"
\* fmt.Sprintf("<disconnected>: %s", reason)
ErrDisconnected(r) == "duankai: " \o String(r)

\* ------------------------------------------------- disconnectWithReason

\* Without the Once: every caller assigns.
OnceDoAlways(s, r) ==
  /\ disconnectReason' = [disconnectReason EXCEPT ![s] = r]
  /\ disconnectOnce' = [disconnectOnce EXCEPT ![s] = TRUE]
  /\ reasonWrites' = [reasonWrites EXCEPT ![s] = @ + 1]
  /\ firstAttempt' =
       [firstAttempt EXCEPT ![s] = IF @ = DisconnectUnknown THEN r ELSE @]

\* n.disconnectOnce.Do(func() { n.disconnectReason = reason })
OnceDo(s, r) ==
  /\ disconnectReason' =
       IF disconnectOnce[s] THEN disconnectReason
       ELSE [disconnectReason EXCEPT ![s] = r]
  /\ disconnectOnce' = [disconnectOnce EXCEPT ![s] = TRUE]
  /\ reasonWrites' =
       IF disconnectOnce[s] THEN reasonWrites
       ELSE [reasonWrites EXCEPT ![s] = @ + 1]
  /\ firstAttempt' =
       [firstAttempt EXCEPT ![s] = IF @ = DisconnectUnknown THEN r ELSE @]

\* A disconnectWithReason that records and does not cancel.
CancelSkipped(s) == UNCHANGED ctxDone

\* n.cancel()
Cancel(s) == ctxDone' = [ctxDone EXCEPT ![s] = TRUE]

\* disconnectWithReason: the reason is published to other goroutines by the
\* cancel (they read it after <-ctx.Done()), so the two are one step
disconnectWithReason(s, r) == OnceDo(s, r) /\ Cancel(s)

\* ------------------------------------------------------- pending table

\* callResult values: the empty channel, a response (body and meta), an error
NoResult == [kind |-> "none", code |-> 0, msg |-> ""]
Response(code, msg) == [kind |-> "resp", code |-> code, msg |-> msg]
ErrResult(text) == [kind |-> "err", code |-> 0, msg |-> text]

\* Error texts.  The reason handed to clearPendingCalls is Chinese in the
\* source ("heartbeat failed repeatedly, clearing stale requests").
TextTimeout == "timeout: service.method"
TextClosed == "connection closed"
TextHeartbeatDrain == "xintiao lianxu shibai, qingli canliu qingqiu"

\* strings.Contains
Contains(s, sub) ==
  \E i \in 1..(Len(s) - Len(sub) + 1) : SubSeq(s, i, i + Len(sub) - 1) = sub

\* Goroutines that call sendRequestWithTimeout on the detailed Network:
\* connectAndRun (Login), the heartbeat task, a worker
Callers == {"login", "hb", "worker"}
IdleCall == [pc |-> "idle", seq |-> 0, ret |-> NoResult]

\* The caller's call is registered in the pending table.
Registered(c) == call[c].seq \in pending

\* A drain that forgets to delete the entries it fails.
FailAllPendingKeep(res) ==
  /\ \A c \in Callers : Registered(c) => ch[c] = NoResult
  /\ pending' = pending
  /\ timer' = [c \in Callers |-> IF Registered(c) THEN FALSE ELSE timer[c]]
  /\ ch' = [c \in Callers |-> IF Registered(c) THEN res ELSE ch[c]]
  /\ sent' = [c \in Callers |-> IF Registered(c) THEN sent[c] + 1 ELSE sent[c]]

\* for seq, p := range n.pending { p.timer.Stop(); p.ch <- res; delete(n.pending, seq) }
\* under pendingMu.  A send on a full one-slot channel would block: the step
\* is possible only when every target channel is empty.
FailAllPending(res) ==
  /\ \A c \in Callers : Registered(c) => ch[c] = NoResult
  /\ pending' = {}
  /\ timer' = [c \in Callers |-> IF Registered(c) THEN FALSE ELSE timer[c]]
  /\ ch' = [c \in Callers |-> IF Registered(c) THEN res ELSE ch[c]]
  /\ sent' = [c \in Callers |-> IF Registered(c) THEN sent[c] + 1 ELSE sent[c]]

\* ------------------------------------------------------- Network.Close

Closers == {"stop", "cr"}

\* n.disconnectWithReason(DisconnectClosed)
CloseDisconnect(k) ==
  /\ closePc[k] = "disconnect"
  /\ disconnectWithReason(closeNet[k], DisconnectClosed)
  /\ closePc' = [closePc EXCEPT ![k] = "conn"]
  /\ UNCHANGED <<instVars, crVars, wdVars, stopVars, closeNet, nNets, conn,
                 taskVars, muxVars>>
  /\ UNCHANGED <<mgrVars, farmVars, workerVars>>

\* if n.conn != nil { write the close frame; n.conn.Close() }
CloseConn(k) ==
  /\ closePc[k] = "conn"
  /\ conn' = [conn EXCEPT ![closeNet[k]] = IF @ = "nil" THEN @ ELSE "closed"]
  /\ closePc' = [closePc EXCEPT ![k] = "drain"]
  /\ UNCHANGED <<instVars, crVars, wdVars, stopVars, closeNet, reasonVars,
                 nNets, ctxDone, taskVars, muxVars>>
  /\ UNCHANGED <<mgrVars, farmVars, workerVars>>

\* Cancel all pending calls.  Only the table of NetId is followed.
CloseDrain(k) ==
  /\ closePc[k] = "drain"
  /\ IF closeNet[k] = NetId
       THEN FailAllPending(ErrResult(TextClosed))
       ELSE UNCHANGED tableVars
  /\ closePc' = [closePc EXCEPT ![k] = "done"]
  /\ UNCHANGED <<instVars, crVars, wdVars, stopVars, closeNet, reasonVars,
                 netVars, taskVars, clientSeq, call, rlPc, hbPc, wkPc,
                 consecutiveFailures, kickInFlight>>
  /\ UNCHANGED <<mgrVars, farmVars, workerVars>>

\* ------------------------------------------------------- Instance.Stop

\* inst.mu is held from StopBegin to StopEnd
MuFree == stopPc = "idle"

\* A Stop that closes stopCh without looking at it first: close of a closed
\* channel panics, so the call does not get past it.
StopBeginNoSelect ==
  /\ stopCh # "closed"
  /\ stopPc = "idle"
  /\ startPc = "done"
  /\ stopCh' = IF stopCh = "open" THEN "closed" ELSE stopCh
  /\ IF instNet # NoNet
       THEN /\ stopPc' = "closing"
            /\ closePc' = [closePc EXCEPT !["stop"] = "disconnect"]
            /\ closeNet' = [closeNet EXCEPT !["stop"] = instNet]
       ELSE /\ stopPc' = "finish"
            /\ UNCHANGED closeVars
  /\ UNCHANGED <<running, err, instNet, crVars, wdVars, reasonVars, netVars,
                 taskVars, muxVars>>
  /\ UNCHANGED <<mgrVars, farmVars, workerVars>>

\* Stop up to the call of inst.net.Close().  Only a registered instance is
\* stopped (Manager.StopBot, Manager.StopAll), so Start has returned nil.
StopBegin ==
  /\ stopPc = "idle"
  /\ startPc = "done"
  /\ stopCh' = IF stopCh = "open" THEN "closed" ELSE stopCh
  /\ IF instNet # NoNet
       THEN /\ stopPc' = "closing"
            /\ closePc' = [closePc EXCEPT !["stop"] = "disconnect"]
            /\ closeNet' = [closeNet EXCEPT !["stop"] = instNet]
       ELSE /\ stopPc' = "finish"
            /\ UNCHANGED closeVars
  /\ UNCHANGED <<running, err, instNet, crVars, wdVars, reasonVars, netVars,
                 taskVars, muxVars>>
  /\ UNCHANGED <<mgrVars, farmVars, workerVars>>

\* Stop called on an Instance whose Start has not been called: stopCh and
\* net are nil, and both ifs are passed over
StopFresh ==
  /\ stopPc = "idle"
  /\ startPc = "init"
  /\ stopPc' = "finish"
  /\ UNCHANGED <<instVars, crVars, wdVars, closeVars, reasonVars, netVars,
                 taskVars, muxVars>>
  /\ UNCHANGED <<mgrVars, farmVars, workerVars>>

\* inst.running = false; unlock
StopEnd ==
  /\ \/ stopPc = "finish"
     \/ stopPc = "closing" /\ closePc["stop"] = "done"
  /\ running' = FALSE
  /\ stopPc' = "idle"
  /\ closePc' = [closePc EXCEPT !["stop"] = "idle"]
  /\ UNCHANGED <<err, instNet, stopCh, crVars, wdVars, closeNet,
                 reasonVars, netVars, taskVars, muxVars>>
  /\ UNCHANGED <<mgrVars, farmVars, workerVars>>

\* ------------------------------------------------ Instance.connectAndRun

NilErr == [kind |-> "nil", reason |-> DisconnectUnknown]
\* fmt.Errorf("connect: %w", err)
ConnectErr == [kind |-> "connect", reason |-> DisconnectUnknown]
\* &connectError{reason: reason, err: ...}
ConnectError(r) == [kind |-> "connectError", reason |-> r]

\* net := NewNetwork(logger); net.Connect(...): the dial succeeds (readLoop
\* and pingLoop are started) or fails (inst.err is set, the error returned).
CrConnect ==
  /\ crPc = "connect"
  /\ nNets < MaxSessions
  /\ nNets' = nNets + 1
  /\ crNet' = nNets + 1
  /\ \/ /\ conn' = [conn EXCEPT ![nNets + 1] = "open"]
        /\ crPc' = "login"
        /\ IF nNets + 1 = NetId
             THEN rlPc' = "read" /\ pingPc' = "run"
             ELSE UNCHANGED <<rlPc, pingPc>>
        /\ UNCHANGED <<err, crErr>>
     \/ /\ MuFree
        /\ err' = ErrConnect
        /\ crErr' = ConnectErr
        /\ crPc' = "ret"
        /\ UNCHANGED <<conn, rlPc, pingPc>>
  /\ UNCHANGED <<running, instNet, stopCh, startPc, crCaller, wdVars,
                 stopVars, closeVars, reasonVars, ctxDone, tasks,
                 clientSeq, tableVars, call, hbPc, wkPc,
                 consecutiveFailures, kickInFlight>>
  /\ UNCHANGED <<mgrVars, farmVars, workerVars>>

\* Login returned an error: reason := net.GetDisconnectReason(); net.Close()
CrLoginFailed ==
  /\ crPc = "loginfail"
  /\ crErr' = ConnectError(disconnectReason[crNet])
  /\ closePc' = [closePc EXCEPT !["cr"] = "disconnect"]
  /\ closeNet' = [closeNet EXCEPT !["cr"] = crNet]
  /\ crPc' = "closing"
  /\ UNCHANGED <<instVars, startPc, crCaller, crNet, wdVars, stopVars,
                 reasonVars, netVars, taskVars, muxVars>>
  /\ UNCHANGED <<mgrVars, farmVars, workerVars>>

\* after net.Close(): inst.err = err.Error(); return &connectError{...}
CrLoginFailedReturn ==
  /\ crPc = "closing"
  /\ closePc["cr"] = "done"
  /\ MuFree
  /\ err' = ErrLogin
  /\ closePc' = [closePc EXCEPT !["cr"] = "idle"]
  /\ crPc' = "ret"
  /\ UNCHANGED <<running, instNet, stopCh, startPc, crCaller, crNet, crErr,
                 wdVars, stopVars, closeNet, reasonVars, netVars, taskVars,
                 muxVars>>
  /\ UNCHANGED <<mgrVars, farmVars, workerVars>>

\* A publish that forgets inst.running = true.
CrPublishNotRunning ==
  /\ crPc = "publish"
  /\ MuFree
  /\ instNet' = crNet
  /\ err' = ErrNone
  /\ crPc' = "tasks"
  /\ UNCHANGED <<running, stopCh, startPc, crCaller, crNet, crErr, wdVars,
                 stopVars, closeVars, reasonVars, netVars, taskVars, muxVars>>
  /\ UNCHANGED <<mgrVars, farmVars, workerVars>>

\* A publish that leaves inst.err as it is.
CrPublishKeepErr ==
  /\ crPc = "publish"
  /\ MuFree
  /\ instNet' = crNet
  /\ running' = TRUE
  /\ crPc' = "tasks"
  /\ UNCHANGED <<err, stopCh, startPc, crCaller, crNet, crErr, wdVars,
                 stopVars, closeVars, reasonVars, netVars, taskVars, muxVars>>
  /\ UNCHANGED <<mgrVars, farmVars, workerVars>>

\* Login returned nil: inst.net = net; inst.running = true; inst.err = ""
CrPublish ==
  /\ crPc = "publish"
  /\ MuFree
  /\ instNet' = crNet
  /\ running' = TRUE
  /\ err' = ErrNone
  /\ crPc' = "tasks"
  /\ UNCHANGED <<stopCh, startPc, crCaller, crNet, crErr, wdVars, stopVars,
                 closeVars, reasonVars, netVars, taskVars, muxVars>>
  /\ UNCHANGED <<mgrVars, farmVars, workerVars>>

\* net.StartHeartbeat(...); go farm.RunLoop(); ... go fertilizer.RunLoop();
\* return nil
CrStartTasks ==
  /\ crPc = "tasks"
  /\ tasks' = [tasks EXCEPT ![crNet] = "run"]
  /\ IF crNet = NetId
       THEN hbPc' = "loop" /\ wkPc' = "loop"
       ELSE UNCHANGED <<hbPc, wkPc>>
  /\ crErr' = NilErr
  /\ crPc' = "ret"
  /\ UNCHANGED <<instVars, startPc, crCaller, crNet, wdVars, stopVars,
                 closeVars, reasonVars, netVars, pingPc, clientSeq, tableVars,
                 call, rlPc, consecutiveFailures, kickInFlight>>
  /\ UNCHANGED <<mgrVars, farmVars, workerVars>>

\* ------------------------------------------------------- Instance.Start

\* Start up to the call of connectAndRun (the instance is new: not running)
StartBegin ==
  /\ startPc = "init"
  /\ MuFree
  /\ ~running
  /\ stopCh' = "open"
  /\ startPc' = "connecting"
  /\ crPc' = "connect"
  /\ crCaller' = "start"
  /\ UNCHANGED <<running, err, instNet, crNet, crErr, wdVars, stopVars,
                 closeVars, reasonVars, netVars, taskVars, muxVars>>
  /\ UNCHANGED <<mgrVars, farmVars, workerVars>>

\* connectAndRun returned: an error is returned to the caller (no watchdog);
\* otherwise go inst.watchdog(); return nil
StartReturn ==
  /\ startPc = "connecting"
  /\ crCaller = "start"
  /\ crPc = "ret"
  /\ crPc' = "idle"
  /\ IF crErr = NilErr
       THEN startPc' = "done" /\ wdPc' = "top"
       ELSE startPc' = "failed" /\ UNCHANGED wdPc
  /\ UNCHANGED <<instVars, crCaller, crNet, crErr, wdNet, wdReason, backoff,
                 loginTimeoutCount, stopVars, closeVars, reasonVars, netVars,
                 taskVars, muxVars>>
  /\ UNCHANGED <<mgrVars, farmVars, workerVars>>

\* ------------------------------------------------------ Instance.watchdog

Min(a, b) == IF a < b THEN a ELSE b

\* A doubling that is not capped.
NextBackoffUncapped(b) == 2 * b

\* backoff *= 2; if backoff > reconnectBackoffMax { backoff = reconnectBackoffMax }
NextBackoff(b) == Min(2 * b, reconnectBackoffMax)

\* inst.mu.RLock(); net := inst.net; if net == nil { return }
WdTop ==
  /\ wdPc = "top"
  /\ MuFree
  /\ wdNet' = instNet
  /\ wdPc' = IF instNet = NoNet THEN "done" ELSE "select"
  /\ UNCHANGED <<instVars, crVars, wdReason, backoff, loginTimeoutCount,
                 stopVars, closeVars, reasonVars, netVars, taskVars, muxVars>>
  /\ UNCHANGED <<mgrVars, farmVars, workerVars>>

\* case <-net.Done(): reason := net.GetDisconnectReason(); inst.running = false
WdSessionDone ==
  /\ wdPc = "select"
  /\ ctxDone[wdNet]
  /\ MuFree
  /\ wdReason' = disconnectReason[wdNet]
  /\ running' = FALSE
  /\ wdPc' = "decide"
  /\ UNCHANGED <<err, instNet, stopCh, crVars, wdNet, backoff,
                 loginTimeoutCount, stopVars, closeVars, reasonVars, netVars,
                 taskVars, muxVars>>
  /\ UNCHANGED <<mgrVars, farmVars, workerVars>>

\* case <-inst.stopCh: return
WdStopped ==
  /\ wdPc = "select"
  /\ stopCh = "closed"
  /\ wdPc' = "done"
  /\ UNCHANGED <<instVars, crVars, wdNet, wdReason, backoff,
                 loginTimeoutCount, stopVars, closeVars, reasonVars, netVars,
                 taskVars, muxVars>>
  /\ UNCHANGED <<mgrVars, farmVars, workerVars>>

\* A watchdog that surrenders on the second login timeout.
StrikeOutAtTwo(n) == n >= 2

\* if loginTimeoutCount >= maxLoginTimeoutAttempts
StrikeOut(n) == n >= maxLoginTimeoutAttempts

\* instance.go:186-205: surrender on a non-retryable reason or on the third
\* login timeout, otherwise enter the reconnect loop
WdDecide ==
  /\ wdPc = "decide"
  /\ IF ~Retryable(wdReason)
       THEN /\ MuFree
            /\ err' = ErrDisconnected(wdReason)
            /\ wdPc' = "done"
            /\ UNCHANGED loginTimeoutCount
       ELSE IF wdReason = DisconnectLoginTimeout
         THEN /\ loginTimeoutCount' = loginTimeoutCount + 1
              /\ IF StrikeOut(loginTimeoutCount + 1)
                   THEN /\ MuFree
                        /\ err' = ErrLoginLimit(loginTimeoutCount + 1)
                        /\ wdPc' = "done"
                   ELSE wdPc' = "sleep" /\ UNCHANGED err
         ELSE /\ wdPc' = "sleep"
              /\ UNCHANGED <<err, loginTimeoutCount>>
  /\ UNCHANGED <<running, instNet, stopCh, crVars, wdNet, wdReason, backoff,
                 stopVars, closeVars, reasonVars, netVars, taskVars, muxVars>>
  /\ UNCHANGED <<mgrVars, farmVars, workerVars>>

\* The reconnect loop's select is reached.  time.After(backoff) is created
\* here and backoff is at least 2 s: if stopCh is already closed the select
\* returns it at once, otherwise the goroutine blocks.
WdSleep ==
  /\ wdPc = "sleep"
  /\ wdPc' = IF stopCh = "closed" THEN "done" ELSE "sleeping"
  /\ UNCHANGED <<instVars, crVars, wdNet, wdReason, backoff,
                 loginTimeoutCount, stopVars, closeVars, reasonVars, netVars,
                 taskVars, muxVars>>
  /\ UNCHANGED <<mgrVars, farmVars, workerVars>>

\* case <-time.After(backoff): err := inst.connectAndRun()
WdBackoffElapsed ==
  /\ wdPc = "sleeping"
  /\ nNets < MaxSessions
  /\ wdPc' = "connecting"
  /\ crPc' = "connect"
  /\ crCaller' = "watchdog"
  /\ UNCHANGED <<instVars, startPc, crNet, crErr, wdNet, wdReason, backoff,
                 loginTimeoutCount, stopVars, closeVars, reasonVars, netVars,
                 taskVars, muxVars>>
  /\ UNCHANGED <<mgrVars, farmVars, workerVars>>

\* case <-inst.stopCh (while blocked in the reconnect loop's select): return
WdSleepStopped ==
  /\ wdPc = "sleeping"
  /\ stopCh = "closed"
  /\ wdPc' = "done"
  /\ UNCHANGED <<instVars, crVars, wdNet, wdReason, backoff,
                 loginTimeoutCount, stopVars, closeVars, reasonVars, netVars,
                 taskVars, muxVars>>
  /\ UNCHANGED <<mgrVars, farmVars, workerVars>>

\* instance.go:217-241: connectAndRun returned
WdReconnectResult ==
  /\ wdPc = "connecting"
  /\ crCaller = "watchdog"
  /\ crPc = "ret"
  /\ crPc' = "idle"
  /\ IF crErr = NilErr
       THEN /\ backoff' = reconnectBackoffInit
            /\ loginTimeoutCount' = 0
            /\ wdPc' = "top"
            /\ UNCHANGED err
       ELSE IF crErr.kind = "connectError"
               /\ crErr.reason = DisconnectLoginTimeout
         THEN /\ loginTimeoutCount' = loginTimeoutCount + 1
              /\ IF StrikeOut(loginTimeoutCount + 1)
                   THEN /\ MuFree
                        /\ err' = ErrLoginLimit(loginTimeoutCount + 1)
                        /\ wdPc' = "done"
                        /\ UNCHANGED backoff
                   ELSE /\ backoff' = NextBackoff(backoff)
                        /\ wdPc' = "sleep"
                        /\ UNCHANGED err
         ELSE /\ backoff' = NextBackoff(backoff)
              /\ wdPc' = "sleep"
              /\ UNCHANGED <<err, loginTimeoutCount>>
  /\ UNCHANGED <<running, instNet, stopCh, startPc, crCaller, crNet, crErr,
                 wdNet, wdReason, stopVars, closeVars, reasonVars, netVars,
                 taskVars, muxVars>>
  /\ UNCHANGED <<mgrVars, farmVars, workerVars>>

\* ------------------------------------------- sessions as events (Spec)

\* Network.Login as one event: it returns nil, or fails after recording
\* LoginTimeout or LoginFailed, or fails without recording a reason (the
\* reply does not decode or carries no basic info).
LoginOutcomes == {"ok", "timeout", "failed", "badreply"}

LoginOutcome(o) ==
  /\ crPc = "login"
  /\ IF o = "timeout" THEN disconnectWithReason(crNet, DisconnectLoginTimeout)
     ELSE IF o = "failed" THEN disconnectWithReason(crNet, DisconnectLoginFailed)
     ELSE UNCHANGED <<reasonVars, ctxDone>>
  /\ crPc' = IF o = "ok" THEN "publish" ELSE "loginfail"
  /\ UNCHANGED <<instVars, startPc, crCaller, crNet, crErr, wdVars, stopVars,
                 closeVars, nNets, conn, taskVars, muxVars>>
  /\ UNCHANGED <<mgrVars, farmVars, workerVars>>

\* pingLoop's write fails on a tick (PingFailed, and pingLoop returns),
\* readLoop's read fails (ReadError), or readLoop handles a Kickout notify, on
\* a session whose goroutines were started by Connect.  Each calls
\* disconnectWithReason, whether or not the session is already cancelled:
\* pingLoop's select may take the tick when ctx.Done() is ready too.  The
\* position of pingLoop is kept for the detailed Network.
EventReasons == {DisconnectPingFailed, DisconnectReadError, DisconnectKickout}

SessionEvent(s, r) ==
  /\ conn[s] # "nil"
  /\ r = DisconnectKickout => conn[s] = "open"
  /\ IF r = DisconnectPingFailed /\ s = NetId
       THEN pingPc = "run" /\ pingPc' = "failed"
       ELSE UNCHANGED pingPc
  /\ disconnectWithReason(s, r)
  /\ UNCHANGED <<instVars, crVars, wdVars, stopVars, closeVars, nNets, conn,
                 tasks, muxVars>>
  /\ UNCHANGED <<mgrVars, farmVars, workerVars>>

\* The heartbeat task sees its third consecutive failure.
HeartbeatTimeout(s) ==
  /\ tasks[s] = "run"
  /\ disconnectWithReason(s, DisconnectHeartbeatTimeout)
  /\ UNCHANGED <<instVars, crVars, wdVars, stopVars, closeVars, nNets, conn,
                 taskVars, muxVars>>
  /\ UNCHANGED <<mgrVars, farmVars, workerVars>>

\* case <-n.ctx.Done(): return, in the heartbeat task and in every RunLoop
TasksExit(s) ==
  /\ tasks[s] = "run"
  /\ ctxDone[s]
  /\ tasks' = [tasks EXCEPT ![s] = "exit"]
  /\ UNCHANGED <<instVars, crVars, wdVars, stopVars, closeVars, reasonVars,
                 netVars, pingPc, muxVars>>
  /\ UNCHANGED <<mgrVars, farmVars, workerVars>>

\* pingLoop of the detailed Network: case <-n.ctx.Done(): return
PingExit ==
  /\ pingPc = "run"
  /\ ctxDone[NetId]
  /\ pingPc' = "exit"
  /\ UNCHANGED <<instVars, crVars, wdVars, stopVars, closeVars, reasonVars,
                 netVars, tasks, muxVars>>
  /\ UNCHANGED <<mgrVars, farmVars, workerVars>>

\* --------------------------------------- sendRequestWithTimeout (SpecNet)

supVars == <<instVars, crVars, wdVars, stopVars, closeVars>>

\* What sendRequestWithTimeout returns: a body, an error, a *ServerError
Body == [kind |-> "body", code |-> 0, msg |-> ""]
ServerError(service, method, code, msg) ==
  [kind |-> "ServerError", service |-> service, method |-> method,
   code |-> code, msg |-> msg]

\* The service and method each caller passes to sendRequestWithTimeout: Login,
\* StartHeartbeat, AllLands
Service(c) ==
  IF c = "worker" THEN "gamepb.plantpb.PlantService"
  ELSE "gamepb.userpb.UserService"
Method(c) ==
  IF c = "login" THEN "Login"
  ELSE IF c = "hb" THEN "Heartbeat" ELSE "AllLands"

\* writeMessage's errors: the connection is gone, or the 10 s write deadline
\* passed
WriteErrors == {"write: use of closed network connection",
                "write: i/o timeout"}

\* An allocation whose increment of clientSeq is lost.
SendAllocLost(c) ==
  /\ call[c].pc = "idle"
  /\ clientSeq < MaxSeq
  /\ clientSeq' = clientSeq
  /\ call' = [call EXCEPT ![c] =
                [pc |-> "insert", seq |-> clientSeq + 1, ret |-> NoResult]]
  /\ ch' = [ch EXCEPT ![c] = NoResult]
  /\ timer' = [timer EXCEPT ![c] = TRUE]
  /\ sent' = [sent EXCEPT ![c] = 0]

\* seq := atomic.AddInt64(&n.clientSeq, 1); ch := make(chan *callResult, 1);
\* timer := time.AfterFunc(timeout, ...): the timer runs from here on
SendAlloc(c) ==
  /\ call[c].pc = "idle"
  /\ clientSeq < MaxSeq
  /\ clientSeq' = clientSeq + 1
  /\ call' = [call EXCEPT ![c] =
                [pc |-> "insert", seq |-> clientSeq + 1, ret |-> NoResult]]
  /\ ch' = [ch EXCEPT ![c] = NoResult]
  /\ timer' = [timer EXCEPT ![c] = TRUE]
  /\ sent' = [sent EXCEPT ![c] = 0]

\* n.pending[seq] = &pendingCall{ch: ch, timer: timer}; the frame is written
\* and the caller blocks on <-ch
SendRequest(c) ==
  /\ call[c].pc = "insert"
  /\ conn[NetId] = "open"
  /\ pending' = pending \cup {call[c].seq}
  /\ call' = [call EXCEPT ![c].pc = "wait"]
  /\ UNCHANGED <<supVars, reasonVars, netVars, taskVars, clientSeq, ch, timer,
                 sent, rlPc, hbPc, wkPc, consecutiveFailures,
                 kickInFlight>>
  /\ UNCHANGED <<mgrVars, farmVars, workerVars>>

\* n.pending[seq] = ...; writeMessage fails (always so on a closed
\* connection): delete(n.pending, seq); timer.Stop(); return the write error.
\* The entry is the call's own, so the table is as before.
SendWriteFailed(c) ==
  /\ call[c].pc = "insert"
  /\ \E e \in WriteErrors :
       call' = [call EXCEPT ![c].pc = "ret", ![c].ret = ErrResult(e)]
  /\ timer' = [timer EXCEPT ![c] = FALSE]
  /\ UNCHANGED <<supVars, reasonVars, netVars, taskVars, clientSeq, pending,
                 ch, sent, rlPc, hbPc, wkPc,
                 consecutiveFailures, kickInFlight>>
  /\ UNCHANGED <<mgrVars, farmVars, workerVars>>

\* A return that does not look at meta.ErrorCode.
ReturnedIgnoreCode(c, res) ==
  IF res.kind = "err" THEN res ELSE Body

\* network.go:346-353: what the received callResult is turned into
Returned(c, res) ==
  IF res.kind = "err" THEN res
  ELSE IF res.code # 0
    THEN ServerError(Service(c), Method(c), res.code, res.msg)
  ELSE Body

\* result := <-ch, and the return
SendRecv(c) ==
  /\ call[c].pc = "wait"
  /\ ch[c] # NoResult
  /\ call' = [call EXCEPT ![c].pc = "ret", ![c].ret = Returned(c, ch[c])]
  /\ ch' = [ch EXCEPT ![c] = NoResult]
  /\ UNCHANGED <<supVars, reasonVars, netVars, taskVars, clientSeq, pending,
                 timer, sent, rlPc, hbPc, wkPc,
                 consecutiveFailures, kickInFlight>>
  /\ UNCHANGED <<mgrVars, farmVars, workerVars>>

\* The time.AfterFunc callback of caller c's call, under pendingMu:
\* if p, ok := n.pending[seq]; ok { delete(n.pending, seq); p.ch <- timeout }
TimerFire(c) ==
  /\ timer[c]
  /\ timer' = [timer EXCEPT ![c] = FALSE]
  /\ IF Registered(c)
       THEN /\ ch[c] = NoResult
            /\ pending' = pending \ {call[c].seq}
            /\ ch' = [ch EXCEPT ![c] = ErrResult(TextTimeout)]
            /\ sent' = [sent EXCEPT ![c] = @ + 1]
       ELSE UNCHANGED <<pending, ch, sent>>
  /\ UNCHANGED <<supVars, reasonVars, netVars, taskVars, clientSeq, call,
                 rlPc, hbPc, wkPc, consecutiveFailures,
                 kickInFlight>>
  /\ UNCHANGED <<mgrVars, farmVars, workerVars>>

\* ------------------------------------ readLoop, handleMessage (SpecNet)

\* What the server may send, as gatepb.Message: Meta.MessageType (2 Response,
\* 3 Notify), Meta.ClientSeq, Meta.ErrorCode, Meta.ErrorMessage and, of a
\* Notify, EventMessage.MessageType.  A Response to any clientSeq, with or
\* without an error code, and the Kickout notify.
ServerReplies == {<<0, "">>, <<1, "busy">>}
ServerMsgs ==
  {[type |-> 2, seq |-> q, code |-> r[1], msg |-> r[2], event |-> ""] :
     q \in Seqs, r \in ServerReplies}
  \cup {[type |-> 3, seq |-> 0, code |-> 0, msg |-> "",
         event |-> "gamepb.userpb.KickoutNotify"]}

\* The caller whose call is registered under seq q
Owner(q) == CHOOSE c \in Callers : call[c].seq = q

\* p.timer.Stop(); p.ch <- res; delete(n.pending, q)
Deliver(q, res) ==
  /\ ch[Owner(q)] = NoResult
  /\ pending' = pending \ {q}
  /\ timer' = [timer EXCEPT ![Owner(q)] = FALSE]
  /\ ch' = [ch EXCEPT ![Owner(q)] = res]
  /\ sent' = [sent EXCEPT ![Owner(q)] = @ + 1]

\* A Response handler that resolves the oldest pending call, whatever the
\* clientSeq of the Response.
ResolveOldest(q, res) ==
  IF pending # {}
    THEN Deliver(CHOOSE p \in pending : \A p2 \in pending : p <= p2, res)
    ELSE UNCHANGED tableVars

\* A Response handler that sends the result and keeps the entry.
ResolveKeep(q, res) ==
  IF q \in pending
    THEN /\ ch[Owner(q)] = NoResult
         /\ ch' = [ch EXCEPT ![Owner(q)] = res]
         /\ sent' = [sent EXCEPT ![Owner(q)] = @ + 1]
         /\ UNCHANGED <<pending, timer>>
    ELSE UNCHANGED tableVars

\* case 2 of handleMessage, under pendingMu: p, ok := n.pending[meta.ClientSeq];
\* if ok { delete(n.pending, seq); p.timer.Stop(); p.ch <- result }
Resolve(q, res) ==
  IF q \in pending THEN Deliver(q, res) ELSE UNCHANGED tableVars

\* ReadMessage returns an error (the connection was closed, the peer is gone,
\* the read deadline passed): readLoop returns through its deferred
\* n.disconnectWithReason(DisconnectReadError)
RlReadError ==
  /\ rlPc = "read"
  /\ disconnectWithReason(NetId, DisconnectReadError)
  /\ rlPc' = "exit"
  /\ UNCHANGED <<supVars, nNets, conn, taskVars, clientSeq, tableVars, call,
                 hbPc, wkPc, consecutiveFailures, kickInFlight>>
  /\ UNCHANGED <<mgrVars, farmVars, workerVars>>

\* ReadMessage returns message m and handleMessage(m) runs: a Response
\* resolves its pending call; a Kickout notify (handleNotify) calls
\* n.disconnectWithReason(DisconnectKickout); readLoop goes on reading.
RlHandle(m) ==
  /\ rlPc = "read"
  /\ conn[NetId] = "open"
  /\ UNCHANGED <<call, rlPc, hbPc, wkPc, clientSeq, consecutiveFailures, conn,
                 nNets, taskVars, supVars>>
  /\ UNCHANGED <<mgrVars, farmVars, workerVars>>
  /\ IF m.type = 2
       THEN /\ Resolve(m.seq, Response(m.code, m.msg))
            /\ UNCHANGED <<reasonVars, ctxDone, kickInFlight>>
       ELSE IF Contains(m.event, "Kickout")
         THEN /\ disconnectWithReason(NetId, DisconnectKickout)
              /\ kickInFlight' = kickInFlight \cup pending
              /\ UNCHANGED tableVars
         ELSE UNCHANGED <<reasonVars, ctxDone, kickInFlight, tableVars>>

\* ----------------------------------------------- StartHeartbeat (SpecNet)

\* case <-ticker.C: n.SendRequest(..., "Heartbeat", body) is called
HbTick ==
  /\ hbPc = "loop"
  /\ SendAlloc("hb")
  /\ hbPc' = "call"
  /\ UNCHANGED <<supVars, reasonVars, netVars, taskVars, pending, rlPc, wkPc,
                 consecutiveFailures, kickInFlight>>
  /\ UNCHANGED <<mgrVars, farmVars, workerVars>>

\* A heartbeat task that gives up on the second failure in a row.
HbGivesUpAtTwo(n) == n >= 2

\* if consecutiveFailures >= maxHeartbeatFailures
HbGivesUp(n) == n >= maxHeartbeatFailures

\* SendRequest returned.  On an error: consecutiveFailures++; at 2 or more
\* clearPendingCalls; at maxHeartbeatFailures go on to disconnect.  Otherwise
\* consecutiveFailures = 0.
HbResult ==
  /\ hbPc = "call"
  /\ call["hb"].pc = "ret"
  /\ call' = [call EXCEPT !["hb"] = IdleCall]
  /\ IF call["hb"].ret.kind # "body"
       THEN /\ consecutiveFailures' = consecutiveFailures + 1
            /\ IF consecutiveFailures + 1 >= 2
                 THEN FailAllPending(ErrResult(TextHeartbeatDrain))
                 ELSE UNCHANGED tableVars
            /\ hbPc' = IF HbGivesUp(consecutiveFailures + 1)
                         THEN "disconnect" ELSE "loop"
       ELSE /\ consecutiveFailures' = 0
            /\ hbPc' = "loop"
            /\ UNCHANGED tableVars
  /\ kickInFlight' = kickInFlight \ {call["hb"].seq}
  /\ UNCHANGED <<supVars, reasonVars, netVars, taskVars, clientSeq, rlPc,
                 wkPc>>
  /\ UNCHANGED <<mgrVars, farmVars, workerVars>>

\* n.disconnectWithReason(DisconnectHeartbeatTimeout); return
HbDisconnect ==
  /\ hbPc = "disconnect"
  /\ disconnectWithReason(NetId, DisconnectHeartbeatTimeout)
  /\ hbPc' = "exit"
  /\ UNCHANGED <<supVars, nNets, conn, taskVars, clientSeq, tableVars, call,
                 rlPc, wkPc, consecutiveFailures, kickInFlight>>
  /\ UNCHANGED <<mgrVars, farmVars, workerVars>>

\* case <-n.ctx.Done(): return
HbExit ==
  /\ hbPc = "loop"
  /\ ctxDone[NetId]
  /\ hbPc' = "exit"
  /\ UNCHANGED <<supVars, reasonVars, netVars, taskVars, clientSeq, tableVars,
                 call, rlPc, wkPc, consecutiveFailures,
                 kickInFlight>>
  /\ UNCHANGED <<mgrVars, farmVars, workerVars>>

\* ------------------------------------------------ a worker (SpecNet)

\* FarmWorker.RunLoop: checkFarm issues an RPC (AllLands)
WkTick ==
  /\ wkPc = "loop"
  /\ SendAlloc("worker")
  /\ wkPc' = "call"
  /\ UNCHANGED <<supVars, reasonVars, netVars, taskVars, pending, rlPc, hbPc,
                 consecutiveFailures, kickInFlight>>
  /\ UNCHANGED <<mgrVars, farmVars, workerVars>>

\* the RPC returned; the worker waits for its next tick
WkResult ==
  /\ wkPc = "call"
  /\ call["worker"].pc = "ret"
  /\ call' = [call EXCEPT !["worker"] = IdleCall]
  /\ wkPc' = "loop"
  /\ kickInFlight' = kickInFlight \ {call["worker"].seq}
  /\ UNCHANGED <<supVars, reasonVars, netVars, taskVars, clientSeq, tableVars,
                 rlPc, hbPc, consecutiveFailures>>
  /\ UNCHANGED <<mgrVars, farmVars, workerVars>>

\* case <-f.net.ctx.Done(): return
WkExit ==
  /\ wkPc = "loop"
  /\ ctxDone[NetId]
  /\ wkPc' = "exit"
  /\ UNCHANGED <<supVars, reasonVars, netVars, taskVars, clientSeq, tableVars,
                 call, rlPc, hbPc, consecutiveFailures,
                 kickInFlight>>
  /\ UNCHANGED <<mgrVars, farmVars, workerVars>>

\* ------------------------------------------------ Network.Login (SpecNet)

\* n.sendRequestWithTimeout(..., "Login", body, loginTimeout) is called
LoginSend ==
  /\ crPc = "login"
  /\ crNet = NetId
  /\ SendAlloc("login")
  /\ crPc' = "loginwait"
  /\ UNCHANGED <<instVars, startPc, crCaller, crNet, crErr, wdVars, stopVars,
                 closeVars, reasonVars, netVars, taskVars, pending, rlPc,
                 hbPc, wkPc, consecutiveFailures, kickInFlight>>
  /\ UNCHANGED <<mgrVars, farmVars, workerVars>>

\* The RPC returned.  An error whose text contains "timeout" is recorded as
\* LoginTimeout, any other error as LoginFailed; a body is a good LoginReply,
\* or one that does not decode or has no Basic: Login then returns an error
\* and records no reason.
LoginResult ==
  /\ crPc = "loginwait"
  /\ call["login"].pc = "ret"
  /\ call' = [call EXCEPT !["login"] = IdleCall]
  /\ IF call["login"].ret.kind # "body"
       THEN /\ disconnectWithReason(NetId,
                 IF Contains(call["login"].ret.msg, "timeout")
                   THEN DisconnectLoginTimeout ELSE DisconnectLoginFailed)
            /\ crPc' = "loginfail"
       ELSE /\ crPc' \in {"publish", "loginfail"}
            /\ UNCHANGED <<reasonVars, ctxDone>>
  /\ kickInFlight' = kickInFlight \ {call["login"].seq}
  /\ UNCHANGED <<instVars, startPc, crCaller, crNet, crErr, wdVars, stopVars,
                 closeVars, nNets, conn, taskVars, clientSeq, tableVars, rlPc,
                 hbPc, wkPc, consecutiveFailures>>
  /\ UNCHANGED <<mgrVars, farmVars, workerVars>>

\* ------------------------------------------------- FarmWorker.checkFarm

nonFarmVars == <<instVars, crVars, wdVars, stopVars, closeVars, reasonVars,
                 netVars, taskVars, muxVars, mgrVars, workerVars>>

\* What analyzeLands returns, as far as checkFarm looks at it: whether
\* needWeed, needBug, needWater are non-empty, and the lengths of harvestable,
\* dead and empty
Statuses ==
  [weed : BOOLEAN, bug : BOOLEAN, water : BOOLEAN,
   harvestable : 0..MaxTiles, dead : 0..MaxTiles, empty : 0..MaxTiles]
NoStatus ==
  [weed |-> FALSE, bug |-> FALSE, water |-> FALSE,
   harvestable |-> 0, dead |-> 0, empty |-> 0]

\* The batch calls with water ahead of the insecticide.
FarmStagesWaterFirst == <<"WeedOut", "WaterLand", "Insecticide", "Harvest">>

\* The batch calls of checkFarm in the order of its statements
FarmStages == <<"WeedOut", "Insecticide", "WaterLand", "Harvest">>

\* if len(status.needWeed) > 0, and so on
Need(st, rpc) ==
  CASE rpc = "WeedOut" -> st.weed
    [] rpc = "Insecticide" -> st.bug
    [] rpc = "WaterLand" -> st.water
    [] rpc = "Harvest" -> st.harvestable > 0

\* f.net.SendRequest(service, rpc, body) is called: the worker blocks in it
Issue(rpc) == fCall' = rpc /\ fLog' = Append(fLog, rpc)

\* RunLoop calls checkFarm, which calls f.net.AllLands()
FmTick ==
  /\ fPc = "sleep" /\ fCall = "none"
  /\ fPc' = "lands"
  /\ fCall' = "AllLands" /\ fLog' = <<"AllLands">>
  /\ fIdx' = 0 /\ fEligible' = 0 /\ fChanged' = FALSE
  /\ fStatus' = NoStatus /\ fHarvested' = FALSE
  /\ fToPlant' = 0 /\ fPlanted' = 0
  /\ fPlantOk' = {} /\ fFert' = {}
  /\ UNCHANGED nonFarmVars

\* AllLands returns: on an error or with no lands checkFarm returns;
\* otherwise autoUnlockAndUpgrade starts its loop over the lands, n of which
\* it will find eligible for an unlock or an upgrade
FmLands(ok, n) ==
  /\ fPc = "lands" /\ fCall = "AllLands"
  /\ fCall' = "none"
  /\ IF ok THEN fPc' = "unlock" /\ fEligible' = n
           ELSE n = 0 /\ fPc' = "sleep" /\ UNCHANGED fEligible
  /\ UNCHANGED <<fIdx, fChanged, fStatus, fHarvested, fToPlant, fPlanted,
                 fLog, fTiles, nonFarmVars>>

\* f.net.UnlockLand(land.Id) or f.net.UpgradeLand(land.Id)
FmUnlockCall(rpc) ==
  /\ fPc = "unlock" /\ fCall = "none"
  /\ fIdx < fEligible
  /\ Issue(rpc)
  /\ UNCHANGED <<fPc, fIdx, fEligible, fChanged, fStatus, fHarvested,
                 fToPlant, fPlanted, fTiles, nonFarmVars>>

\* it returns: unlocked++ or upgraded++ unless it failed; 200 ms sleep
FmUnlockReturn(ok) ==
  /\ fPc = "unlock" /\ fCall \in {"UnlockLand", "UpgradeLand"}
  /\ fCall' = "none"
  /\ fIdx' = fIdx + 1
  /\ fChanged' = (fChanged \/ ok)
  /\ UNCHANGED <<fPc, fEligible, fStatus, fHarvested, fToPlant, fPlanted,
                 fLog, fTiles, nonFarmVars>>

\* autoUnlockAndUpgrade returns and nothing was unlocked or upgraded:
\* analyzeLands(lands)
FmAnalyze(st) ==
  /\ fPc = "unlock" /\ fCall = "none"
  /\ fIdx = fEligible
  /\ ~fChanged
  /\ fStatus' = st
  /\ fPc' = "batch" /\ fIdx' = 1
  /\ UNCHANGED <<fCall, fEligible, fChanged, fHarvested, fToPlant, fPlanted,
                 fLog, fTiles, nonFarmVars>>

\* autoUnlockAndUpgrade returns and something was unlocked or upgraded:
\* f.net.AllLands() again
FmRefetchCall ==
  /\ fPc = "unlock" /\ fCall = "none"
  /\ fIdx = fEligible
  /\ fChanged
  /\ Issue("AllLands")
  /\ fPc' = "refetch"
  /\ UNCHANGED <<fIdx, fEligible, fChanged, fStatus, fHarvested, fToPlant,
                 fPlanted, fTiles, nonFarmVars>>

\* the second AllLands returns: on an error checkFarm returns, otherwise
\* analyzeLands(lands)
FmRefetchReturn(ok, st) ==
  /\ fPc = "refetch" /\ fCall = "AllLands"
  /\ fCall' = "none"
  /\ IF ok THEN fStatus' = st /\ fPc' = "batch" /\ fIdx' = 1
           ELSE st = NoStatus /\ fPc' = "sleep" /\ UNCHANGED <<fStatus, fIdx>>
  /\ UNCHANGED <<fEligible, fChanged, fHarvested, fToPlant, fPlanted, fLog,
                 fTiles, nonFarmVars>>

\* a batch call whose list is empty is passed over
FmBatchSkip ==
  /\ fPc = "batch" /\ fCall = "none"
  /\ fIdx <= Len(FarmStages)
  /\ ~Need(fStatus, FarmStages[fIdx])
  /\ fIdx' = fIdx + 1
  /\ UNCHANGED <<fPc, fCall, fEligible, fChanged, fStatus, fHarvested,
                 fToPlant, fPlanted, fLog, fTiles, nonFarmVars>>

\* f.weedOut, f.insecticide, f.waterLand, f.harvest
FmBatchCall ==
  /\ fPc = "batch" /\ fCall = "none"
  /\ fIdx <= Len(FarmStages)
  /\ Need(fStatus, FarmStages[fIdx])
  /\ Issue(FarmStages[fIdx])
  /\ UNCHANGED <<fPc, fIdx, fEligible, fChanged, fStatus, fHarvested,
                 fToPlant, fPlanted, fTiles, nonFarmVars>>

\* it returns; harvestedLands = status.harvestable when Harvest succeeded
FmBatchReturn(ok) ==
  /\ fPc = "batch" /\ fCall # "none"
  /\ fCall' = "none"
  /\ fIdx' = fIdx + 1
  /\ fHarvested' = (fHarvested \/ (fCall = "Harvest" /\ ok))
  /\ UNCHANGED <<fPc, fEligible, fChanged, fStatus, fToPlant, fPlanted, fLog,
                 fTiles, nonFarmVars>>

\* allDead := append(status.dead, harvestedLands...); allEmpty :=
\* status.empty; autoPlant is called unless both are empty, and removes the
\* dead plants first if there are any; toLant is allEmpty and allDead
FmAutoPlant ==
  /\ fPc = "batch" /\ fCall = "none"
  /\ fIdx > Len(FarmStages)
  /\ LET allDead == fStatus.dead
                      + IF fHarvested THEN fStatus.harvestable ELSE 0
         allEmpty == fStatus.empty
     IN /\ fToPlant' = allEmpty + allDead
        /\ fPc' = IF allDead + allEmpty = 0 THEN "sleep"
                  ELSE IF allDead > 0 THEN "remove" ELSE "shop"
  /\ UNCHANGED <<fIdx, fCall, fEligible, fChanged, fStatus, fHarvested,
                 fPlanted, fLog, fTiles, nonFarmVars>>

\* f.removePlant(deadLands)
FmRemoveCall ==
  /\ fPc = "remove" /\ fCall = "none"
  /\ Issue("RemovePlant")
  /\ UNCHANGED <<fPc, fIdx, fEligible, fChanged, fStatus, fHarvested,
                 fToPlant, fPlanted, fTiles, nonFarmVars>>

\* it returns; its error is only logged
FmRemoveReturn ==
  /\ fPc = "remove" /\ fCall = "RemovePlant"
  /\ fCall' = "none"
  /\ fPc' = "shop"
  /\ UNCHANGED <<fIdx, fEligible, fChanged, fStatus, fHarvested, fToPlant,
                 fPlanted, fLog, fTiles, nonFarmVars>>

\* f.findBestSeed(unlockedCount): the ShopInfo request
FmShopCall ==
  /\ fPc = "shop" /\ fCall = "none"
  /\ Issue("ShopInfo")
  /\ UNCHANGED <<fPc, fIdx, fEligible, fChanged, fStatus, fHarvested,
                 fToPlant, fPlanted, fTiles, nonFarmVars>>

\* A purchase that is not cut to the gold.
AffordableAll(n, price, gold) == n

\* if totalCost > gold { canBuy := gold / bestSeed.Price; ... toLant =
\* toLant[:canBuy] }
Affordable(n, price, gold) ==
  IF price * n > gold THEN gold \div price ELSE n

\* findBestSeed returns: with an error or no seed autoPlant returns;
\* otherwise toLant is cut to what the gold buys, and autoPlant returns if
\* that is nothing
FmShopReturn(ok, price, gold) ==
  /\ fPc = "shop" /\ fCall = "ShopInfo"
  /\ fCall' = "none"
  /\ IF ok /\ Affordable(fToPlant, price, gold) > 0
       THEN /\ fToPlant' = Affordable(fToPlant, price, gold)
            /\ fPc' = "buy"
       ELSE /\ fPc' = "sleep"
            /\ UNCHANGED fToPlant
  /\ UNCHANGED <<fIdx, fEligible, fChanged, fStatus, fHarvested, fPlanted,
                 fLog, fTiles, nonFarmVars>>

\* the BuyGoods request
FmBuyCall ==
  /\ fPc = "buy" /\ fCall = "none"
  /\ Issue("BuyGoods")
  /\ UNCHANGED <<fPc, fIdx, fEligible, fChanged, fStatus, fHarvested,
                 fToPlant, fPlanted, fTiles, nonFarmVars>>

\* it returns: on an error autoPlant returns, otherwise the plant loop starts
FmBuyReturn(ok) ==
  /\ fPc = "buy" /\ fCall = "BuyGoods"
  /\ fCall' = "none"
  /\ fPc' = IF ok THEN "plant" ELSE "sleep"
  /\ fIdx' = 0
  /\ UNCHANGED <<fEligible, fChanged, fStatus, fHarvested, fToPlant,
                 fPlanted, fLog, fTiles, nonFarmVars>>

\* for _, landID := range toLant: the Plant request for one land
FmPlantCall ==
  /\ fPc = "plant" /\ fCall = "none"
  /\ fIdx < fToPlant
  /\ Issue("Plant")
  /\ UNCHANGED <<fPc, fIdx, fEligible, fChanged, fStatus, fHarvested,
                 fToPlant, fPlanted, fTiles, nonFarmVars>>

\* it returns: planted++ unless it failed; 50 ms sleep
FmPlantReturn(ok) ==
  /\ fPc = "plant" /\ fCall = "Plant"
  /\ fCall' = "none"
  /\ fIdx' = fIdx + 1
  /\ fPlanted' = IF ok THEN fPlanted + 1 ELSE fPlanted
  /\ fPlantOk' = IF ok THEN fPlantOk \cup {fIdx + 1} ELSE fPlantOk
  /\ UNCHANGED <<fPc, fEligible, fChanged, fStatus, fHarvested, fToPlant,
                 fLog, fFert, nonFarmVars>>

\* the plant loop ends: if planted > 0 { f.fertilize(toLant[:planted]) }
FmPlantDone ==
  /\ fPc = "plant" /\ fCall = "none"
  /\ fIdx = fToPlant
  /\ fPc' = IF fPlanted > 0 THEN "fert" ELSE "sleep"
  /\ fIdx' = 0
  /\ UNCHANGED <<fCall, fEligible, fChanged, fStatus, fHarvested, fToPlant,
                 fPlanted, fLog, fTiles, nonFarmVars>>

\* fertilize(toLant[:planted]): the Fertilize request for the next land of
\* that slice, which holds the first planted lands of toLant
FmFertCall ==
  /\ fPc = "fert" /\ fCall = "none"
  /\ fIdx < fPlanted
  /\ Issue("Fertilize")
  /\ fFert' = fFert \cup {fIdx + 1}
  /\ UNCHANGED <<fPc, fIdx, fEligible, fChanged, fStatus, fHarvested,
                 fToPlant, fPlanted, fPlantOk, nonFarmVars>>

\* it returns: on an error the loop is left (break), otherwise success++ and
\* 50 ms sleep
FmFertReturn(ok) ==
  /\ fPc = "fert" /\ fCall = "Fertilize"
  /\ fCall' = "none"
  /\ IF ok THEN fIdx' = fIdx + 1 /\ UNCHANGED fPc
           ELSE fPc' = "sleep" /\ UNCHANGED fIdx
  /\ UNCHANGED <<fEligible, fChanged, fStatus, fHarvested, fToPlant,
                 fPlanted, fLog, fTiles, nonFarmVars>>

\* the fertilize loop ends; autoPlant and checkFarm return
FmFertDone ==
  /\ fPc = "fert" /\ fCall = "none"
  /\ fIdx = fPlanted
  /\ fPc' = "sleep"
  /\ UNCHANGED <<fIdx, fCall, fEligible, fChanged, fStatus, fHarvested,
                 fToPlant, fPlanted, fLog, fTiles, nonFarmVars>>

\* ------------------------------------------ FertilizerWorker (buying packs)

\* Everything but the fertilizer worker.
nonFertVars == <<instVars, crVars, wdVars, stopVars, closeVars, reasonVars,
                 netVars, taskVars, muxVars, mgrVars, farmVars, tcVars,
                 logVars, hbLogVars, dataVars>>

\* the zero value of dailyDate; the days are 0..MaxDays
NoDate == -1

\* connectAndRun makes a FertilizerWorker for the session it set up
\* (instance.go:156): the struct literal leaves dailyBuyCount, dailyDate and
\* lastBuyTime zero.  The limit is the account's, fixed when the Instance is
\* made.
NewFertilizerWorker(limit) ==
  /\ nWorkers < MaxSessions
  /\ fwPc \in {"none", "idle"}
  /\ nWorkers' = nWorkers + 1
  /\ fwLimit' = IF nWorkers = 0 THEN limit ELSE fwLimit
  /\ dailyBuyCount' = 0 /\ dailyDate' = NoDate /\ lastBuyRecent' = FALSE
  /\ fwPc' = "idle" /\ fwCoupons' = 0
  /\ UNCHANGED <<today, boughtToday, nonFertVars>>

\* midnight
FwNewDay ==
  /\ today < MaxDays
  /\ today' = today + 1
  /\ boughtToday' = 0
  /\ UNCHANGED <<nWorkers, fwLimit, dailyBuyCount, dailyDate, lastBuyRecent,
                 fwPc, fwCoupons, nonFertVars>>

\* buyCooldown has passed since lastBuyTime
FwCooldownOver ==
  /\ lastBuyRecent
  /\ lastBuyRecent' = FALSE
  /\ UNCHANGED <<nWorkers, fwLimit, dailyBuyCount, dailyDate, fwPc, fwCoupons,
                 today, boughtToday, nonFertVars>>

\* runFertilizerTask up to the call of buyFertilizerPacks: resetDailyCounters,
\* then getBagItems; when the Bag request fails the task returns
FwTick(ok, coupons) ==
  /\ fwPc = "idle"
  /\ dailyDate' = today
  /\ dailyBuyCount' = IF dailyDate # today THEN 0 ELSE dailyBuyCount
  /\ IF ok THEN fwPc' = "buy" /\ fwCoupons' = coupons
           ELSE UNCHANGED <<fwPc, fwCoupons>>
  /\ UNCHANGED <<nWorkers, fwLimit, lastBuyRecent, today, boughtToday,
                 nonFertVars>>

\* toBuy of buyFertilizerPacks, 0 where it returns before computing it
ToBuy(limit, already, coupons, price) ==
  IF limit > 0 THEN Min(coupons \div price, limit - already)
               ELSE coupons \div price

\* buyFertilizerPacks: the early returns, or the purchase loop in which the
\* first bought Purchase requests succeed, and the bookkeeping after it
FwBuy(full, priceOk, price, bought) ==
  /\ fwPc = "buy"
  /\ fwPc' = "idle" /\ fwCoupons' = 0
  /\ IF \/ fwLimit > 0 /\ dailyBuyCount >= fwLimit
        \/ lastBuyRecent
        \/ full
        \/ fwCoupons <= 0
        \/ ~priceOk \/ price <= 0
        \/ fwCoupons < price
        \/ ToBuy(fwLimit, dailyBuyCount, fwCoupons, price) <= 0
     THEN UNCHANGED <<dailyBuyCount, lastBuyRecent, boughtToday>>
     ELSE /\ bought <= ToBuy(fwLimit, dailyBuyCount, fwCoupons, price)
          /\ boughtToday + bought <= MaxBought
          /\ dailyBuyCount' = dailyBuyCount + bought
          /\ lastBuyRecent' = TRUE
          /\ boughtToday' = boughtToday + bought
  /\ UNCHANGED <<nWorkers, fwLimit, dailyDate, today, nonFertVars>>

NextFert ==
  \/ \E limit \in 0..MaxLimit : NewFertilizerWorker(limit)
  \/ FwNewDay
  \/ FwCooldownOver
  \/ \E ok \in BOOLEAN, coupons \in 0..MaxCoupons : FwTick(ok, coupons)
  \/ \E full, priceOk \in BOOLEAN, price \in 0..MaxPrice,
        bought \in 0..MaxCoupons : FwBuy(full, priceOk, price, bought)

\* ------------------------------------------------ TaskWorker.checkAndClaim

\* Everything but the task worker.
nonTaskVars == <<instVars, crVars, wdVars, stopVars, closeVars, reasonVars,
                 netVars, taskVars, muxVars, mgrVars, farmVars, fertVars,
                 logVars, hbLogVars, dataVars>>

\* Progress and TotalProgress of a task: nothing done, or one thing
Amounts == {0, 1}

\* taskpb.Task, the fields checkAndClaim reads
Tasks ==
  [IsUnlocked : BOOLEAN, IsClaimed : BOOLEAN, Progress : Amounts,
   TotalProgress : Amounts]

NoReply == [GrowthTasks |-> <<>>, DailyTasks |-> <<>>, Tasks |-> <<>>,
            TaskInfo |-> FALSE]

\* allTasks: the three lists appended in this order
AllTasks(reply) == reply.GrowthTasks \o reply.DailyTasks \o reply.Tasks

\* the condition of the loop that fills claimable
ClaimableAnyTotal(task) ==
  /\ task.IsUnlocked /\ ~task.IsClaimed
  /\ task.Progress >= task.TotalProgress

Claimable(task) ==
  /\ task.IsUnlocked /\ ~task.IsClaimed
  /\ task.Progress >= task.TotalProgress /\ task.TotalProgress > 0

\* claimable, as the indices in all of the tasks appended to it, in order
RECURSIVE ClaimableOf(_, _)
ClaimableOf(all, i) ==
  IF i > Len(all) THEN <<>>
  ELSE (IF Claimable(all[i]) THEN <<i>> ELSE <<>>) \o ClaimableOf(all, i + 1)

\* checkAndClaim up to the claim loop: the TaskInfo request fails, or its
\* reply has no TaskInfo, or it has the three lists
TkTick(ok, reply) ==
  /\ tkPc = "wait"
  /\ tkLog' = <<>> /\ tkIdx' = 1
  /\ IF ok /\ reply.TaskInfo
     THEN /\ tkReply' = reply
          /\ tkClaimable' = ClaimableOf(AllTasks(reply), 1)
          /\ tkPc' = IF tkClaimable' = <<>> THEN "idle" ELSE "claim"
     ELSE /\ tkReply' = NoReply /\ tkClaimable' = <<>>
          /\ tkPc' = "idle"
  /\ UNCHANGED nonTaskVars

\* one round of the claim loop: the ClaimTaskReward request for the task,
\* which succeeds or fails; the loop goes on either way
TkClaim(ok) ==
  /\ tkPc = "claim"
  /\ tkLog' = Append(tkLog, tkClaimable[tkIdx])
  /\ tkIdx' = tkIdx + 1
  /\ tkPc' = IF tkIdx = Len(tkClaimable) THEN "idle" ELSE "claim"
  /\ UNCHANGED <<tkReply, tkClaimable, nonTaskVars>>

\* The lengths of the three lists of a reply with at most MaxTasks tasks.
Lengths ==
  { m \in (0..MaxTasks) \X (0..MaxTasks) \X (0..MaxTasks) :
      m[1] + m[2] + m[3] <= MaxTasks }

Reply(g, d, o) ==
  [GrowthTasks |-> g, DailyTasks |-> d, Tasks |-> o, TaskInfo |-> TRUE]

\* checkAndClaim has returned to RunLoop, which waits for the next tick
TkReturn ==
  /\ tkPc = "idle"
  /\ tkPc' = "wait"
  /\ tkReply' = NoReply /\ tkClaimable' = <<>> /\ tkIdx' = 0 /\ tkLog' = <<>>
  /\ UNCHANGED nonTaskVars

NextTask ==
  \/ /\ tkPc = "wait"
     /\ \/ \E ok \in BOOLEAN : TkTick(ok, NoReply)
        \/ \E n \in Lengths :
             \E g \in [1..n[1] -> Tasks], d \in [1..n[2] -> Tasks],
                o \in [1..n[3] -> Tasks] : TkTick(TRUE, Reply(g, d, o))
  \/ TkReturn
  \/ \E ok \in BOOLEAN : TkClaim(ok)

\* ------------------------------------------------------------------ Logger

\* Everything but the Logger.
nonLogVars == <<instVars, crVars, wdVars, stopVars, closeVars, reasonVars,
                netVars, taskVars, muxVars, mgrVars, farmVars, fertVars,
                tcVars, hbLogVars, dataVars>>

Chans == 1..MaxSubs
Emitters == 1..MaxEmitters

\* l.mu can be taken for writing: no emit holds it for reading (Subscribe
\* and Unsubscribe hold it for one step each)
WriteLockAlways == TRUE

WriteLockFree == \A e \in Emitters : lgEmit[e].pc # "range"

\* Subscribe: make(chan, 100), and the insert under l.mu
Subscribe(c) ==
  /\ lgChan[c] = "none"
  /\ \A d \in Chans : d < c => lgChan[d] # "none"
  /\ WriteLockFree
  /\ lgChan' = [lgChan EXCEPT ![c] = "open"]
  /\ subscribers' = subscribers \cup {c}
  /\ UNCHANGED <<lgBuf, lgUnsub, lgEmit, lgPanic, nonLogVars>>

\* Unsubscribe(ch), by the reader of ch: the delete under l.mu
UnsubscribeDelete(c) ==
  /\ lgChan[c] = "open" /\ lgUnsub[c] = "idle"
  /\ WriteLockFree
  /\ subscribers' = subscribers \ {c}
  /\ lgUnsub' = [lgUnsub EXCEPT ![c] = "deleted"]
  /\ UNCHANGED <<lgChan, lgBuf, lgEmit, lgPanic, nonLogVars>>

\* ... and close(ch) after l.mu is released
UnsubscribeClose(c) ==
  /\ lgUnsub[c] = "deleted"
  /\ lgUnsub' = [lgUnsub EXCEPT ![c] = "done"]
  /\ lgChan' = [lgChan EXCEPT ![c] = "closed"]
  /\ UNCHANGED <<subscribers, lgBuf, lgEmit, lgPanic, nonLogVars>>

\* the subscriber's reader takes an entry from the channel
LogReceive(c) ==
  /\ lgChan[c] = "open" /\ lgBuf[c] > 0
  /\ lgBuf' = [lgBuf EXCEPT ![c] = lgBuf[c] - 1]
  /\ UNCHANGED <<subscribers, lgChan, lgUnsub, lgEmit, lgPanic, nonLogVars>>

\* emit: the entry is made and stored, l.mu.RLock(), and the range over
\* l.subscribers starts
EmitBegin(e) ==
  /\ lgEmit[e].pc = "idle"
  /\ lgEmit' = [lgEmit EXCEPT ![e] = [pc |-> "range", rest |-> subscribers]]
  /\ UNCHANGED <<subscribers, lgChan, lgBuf, lgUnsub, lgPanic, nonLogVars>>

\* one round of the range loop: select { case ch <- entry: default: }.  A
\* send on a closed channel panics.
EmitSend(e, c) ==
  /\ lgEmit[e].pc = "range" /\ c \in lgEmit[e].rest
  /\ lgEmit' = [lgEmit EXCEPT ![e].rest = @ \ {c}]
  /\ IF lgChan[c] = "closed"
     THEN lgPanic' = TRUE /\ UNCHANGED lgBuf
     ELSE /\ lgBuf' = [lgBuf EXCEPT ![c] = IF @ < MaxBuffer THEN @ + 1 ELSE @]
          /\ UNCHANGED lgPanic
  /\ UNCHANGED <<subscribers, lgChan, lgUnsub, nonLogVars>>

\* the range is over: l.mu.RUnlock(), the line on stdout, return
EmitEnd(e) ==
  /\ lgEmit[e].pc = "range" /\ lgEmit[e].rest = {}
  /\ lgEmit' = [lgEmit EXCEPT ![e].pc = "idle"]
  /\ UNCHANGED <<subscribers, lgChan, lgBuf, lgUnsub, lgPanic, nonLogVars>>

NextLog ==
  \/ \E c \in Chans :
       \/ Subscribe(c) \/ UnsubscribeDelete(c) \/ UnsubscribeClose(c)
       \/ LogReceive(c)
  \/ \E e \in Emitters :
       \/ EmitBegin(e) \/ EmitEnd(e)
       \/ \E c \in Chans : EmitSend(e, c)

\* ------------------------------------- StartHeartbeat, its RPC as an event

\* What the heartbeat task leaves alone.
hbRest == <<supVars, nNets, conn, taskVars, clientSeq, tableVars, call, rlPc,
            wkPc, kickInFlight, mgrVars, farmVars, fertVars, tcVars, logVars,
            dataVars>>

\* WARN entries by message: "shibai (i/3)" after a failed heartbeat, "yi
\* qingli n ge canliu qingqiu" of clearPendingCalls, "lianjie keneng yi
\* duankai" of the diagnostic, "lianxu shibai 3 ci, duankai lianjie"
NoWarns == [failed |-> 0, cleared |-> 0, stale |-> 0, giveup |-> 0]

\* StartHeartbeat: the goroutine is started with consecutiveFailures := 0
HeartbeatStart ==
  /\ hbPc = "off"
  /\ hbPc' = "loop"
  /\ consecutiveFailures' = 0
  /\ UNCHANGED <<reasonVars, ctxDone, hbLogVars, hbRest>>

\* case <-ticker.C: with gid 0 the round is skipped; otherwise the
\* diagnostic is logged when the last successful heartbeat is more than
\* heartbeatResponseDeadline ago, and SendRequest is called
HeartbeatTick(gid, stale) ==
  /\ hbPc = "loop"
  /\ IF gid
     THEN /\ hbPc' = "call"
          /\ hbWarns' = IF stale THEN [hbWarns EXCEPT !.stale = @ + 1]
                                ELSE hbWarns
     ELSE UNCHANGED <<hbPc, hbWarns>>
  /\ UNCHANGED <<reasonVars, ctxDone, consecutiveFailures, nPending, hbRest>>

\* SendRequest returned: on an error the counter, the WARN entry, at two or
\* more clearPendingCalls (which logs when it removed something), at
\* maxHeartbeatFailures the last WARN entry; on a reply the counter is reset
HeartbeatReturn(ok) ==
  /\ hbPc = "call"
  /\ IF ok
     THEN /\ consecutiveFailures' = 0
          /\ hbWarns' = NoWarns
          /\ hbPc' = "loop"
          /\ UNCHANGED nPending
     ELSE /\ consecutiveFailures' = consecutiveFailures + 1
          /\ nPending' = IF consecutiveFailures' >= 2 THEN 0 ELSE nPending
          /\ hbWarns' =
               [hbWarns EXCEPT
                  !.failed = @ + 1,
                  !.cleared = IF consecutiveFailures' >= 2 /\ nPending > 0
                                THEN @ + 1 ELSE @,
                  !.giveup = IF HbGivesUp(consecutiveFailures')
                               THEN @ + 1 ELSE @]
          /\ hbPc' = IF HbGivesUp(consecutiveFailures')
                       THEN "disconnect" ELSE "loop"
  /\ UNCHANGED <<reasonVars, ctxDone, hbRest>>

\* other goroutines register a call in n.pending, or are done with one
PendingChange(n) ==
  /\ hbPc # "off"
  /\ n \in {nPending - 1, nPending + 1}
  /\ nPending' = n
  /\ UNCHANGED <<reasonVars, ctxDone, hbPc, consecutiveFailures, hbWarns,
                 hbRest>>

\* the session is ended by another goroutine (pingLoop, readLoop, a Kickout
\* notify, Close)
SessionEnded(r) ==
  /\ hbPc # "off"
  /\ disconnectWithReason(NetId, r)
  /\ UNCHANGED <<hbPc, consecutiveFailures, hbLogVars, hbRest>>

NextHb ==
  \/ HeartbeatStart
  \/ \E gid, stale \in BOOLEAN : HeartbeatTick(gid, stale)
  \/ \E ok \in BOOLEAN : HeartbeatReturn(ok)
  \/ HbDisconnect \/ HbExit
  \/ \E n \in 0..MaxSeq : PendingChange(n)
  \/ \E r \in EventReasons \cup {DisconnectClosed} : SessionEnded(r)

\* ------------------------------------------- serverSeq (SpecSeq)

MaxServerSeq == 3

\* meta.ServerSeq of an inbound envelope: an int64 the server chooses
ServerSeqs == -1..MaxServerSeq

\* readLoop hands an envelope with a Meta to handleMessage
HmRecv(v) ==
  /\ hmPc = "idle"
  /\ hmIn' = v
  /\ maxSeen' = IF v > maxSeen THEN v ELSE maxSeen
  /\ hmPc' = IF v > 0 THEN "load" ELSE "idle"
  /\ UNCHANGED <<serverSeq, hmOld, reqSeq>>
  /\ UNCHANGED nonSeqVars

\* A load that goes on to the swap whatever it loaded.
HmLoadNoCompare ==
  /\ hmPc = "load"
  /\ hmOld' = serverSeq
  /\ hmPc' = "cas"
  /\ UNCHANGED <<serverSeq, hmIn, maxSeen, reqSeq>>
  /\ UNCHANGED nonSeqVars

\* old := atomic.LoadInt64(&n.serverSeq); if meta.ServerSeq <= old { break }
HmLoad ==
  /\ hmPc = "load"
  /\ hmOld' = serverSeq
  /\ hmPc' = IF hmIn <= serverSeq THEN "idle" ELSE "cas"
  /\ UNCHANGED <<serverSeq, hmIn, maxSeen, reqSeq>>
  /\ UNCHANGED nonSeqVars

\* atomic.CompareAndSwapInt64(&n.serverSeq, old, meta.ServerSeq): break when
\* it swapped, another round of the loop when it did not
HmCas ==
  /\ hmPc = "cas"
  /\ IF serverSeq = hmOld
       THEN serverSeq' = hmIn /\ hmPc' = "idle"
       ELSE UNCHANGED serverSeq /\ hmPc' = "load"
  /\ UNCHANGED <<hmIn, hmOld, maxSeen, reqSeq>>
  /\ UNCHANGED nonSeqVars

\* sendRequestWithTimeout builds its Meta, on any goroutine and at any time:
\* ServerSeq: atomic.LoadInt64(&n.serverSeq)
SrBuild ==
  /\ reqSeq' = serverSeq
  /\ UNCHANGED <<serverSeq, hmPc, hmIn, hmOld, maxSeen>>
  /\ UNCHANGED nonSeqVars

\* ------------------------------------------- LandCache (SpecCache)

MaxUpdates == 3
MaxReaders == 2

\* the goroutines that call Get (the dashboard's request handlers)
Getters == 1..MaxReaders

\* the assignments of Update and the reads of Get, in the order of the code
UpdateOrder == <<"totalLands", "unlockedLands", "lands", "harvestInfos">>
GetOrder == <<"totalLands", "unlockedLands", "lands">>

\* Positions of the two calls: 0 not in the call, i before the i-th
\* assignment or read, then before the unlock; Get stays at GetDone, with
\* its results, until it is called again
GetDone == Len(GetOrder) + 2

\* A read lock that is given whatever the state of the lock.
RLockAlways == TRUE

\* lc.mu.RLock() can be taken: no writer holds mu
RLockFree == ~lcWriter

\* lc.mu.Lock() can be taken
LockFree == ~lcWriter /\ lcReaders = 0

\* updateLandCache has built its lists and calls f.lands.Update, which takes
\* lc.mu.Lock()
UpLock ==
  /\ upPc = 0
  /\ nUpdates < MaxUpdates
  /\ LockFree
  /\ lcWriter' = TRUE
  /\ nUpdates' = nUpdates + 1
  /\ upPc' = 1
  /\ UNCHANGED <<lcReaders, lcFields, gtPc, gtRet>>
  /\ UNCHANGED nonCacheVars

\* the next assignment of Update
UpAssign ==
  /\ upPc \in 1..Len(UpdateOrder)
  /\ lcFields' = [lcFields EXCEPT ![UpdateOrder[upPc]] = nUpdates]
  /\ upPc' = upPc + 1
  /\ UNCHANGED <<lcWriter, lcReaders, nUpdates, gtPc, gtRet>>
  /\ UNCHANGED nonCacheVars

\* the deferred lc.mu.Unlock()
UpUnlock ==
  /\ upPc = Len(UpdateOrder) + 1
  /\ lcWriter' = FALSE
  /\ upPc' = 0
  /\ UNCHANGED <<lcReaders, lcFields, nUpdates, gtPc, gtRet>>
  /\ UNCHANGED nonCacheVars

\* Get is called by goroutine g: lc.mu.RLock()
GetRLock(g) ==
  /\ gtPc[g] \in {0, GetDone}
  /\ RLockFree
  /\ lcReaders' = lcReaders + 1
  /\ gtPc' = [gtPc EXCEPT ![g] = 1]
  /\ UNCHANGED <<lcWriter, lcFields, upPc, nUpdates, gtRet>>
  /\ UNCHANGED nonCacheVars

\* the next operand of return lc.totalLands, lc.unlockedLands, lc.lands
GetRead(g) ==
  /\ gtPc[g] \in 1..Len(GetOrder)
  /\ gtRet' = [gtRet EXCEPT ![g][GetOrder[gtPc[g]]] =
                                lcFields[GetOrder[gtPc[g]]]]
  /\ gtPc' = [gtPc EXCEPT ![g] = @ + 1]
  /\ UNCHANGED <<lcWriter, lcReaders, lcFields, upPc, nUpdates>>
  /\ UNCHANGED nonCacheVars

\* the deferred lc.mu.RUnlock(), and the return
GetRUnlock(g) ==
  /\ gtPc[g] = Len(GetOrder) + 1
  /\ lcReaders' = lcReaders - 1
  /\ gtPc' = [gtPc EXCEPT ![g] = GetDone]
  /\ UNCHANGED <<lcWriter, lcFields, upPc, nUpdates, gtRet>>
  /\ UNCHANGED nonCacheVars

\* ------------------------------------- autoPlant's purchase (SpecPlant)

MaxPlant == 3
MaxSeedPrice == 3
MaxUserGold == 4

\* autoPlant has its list of lands to plant, which is not empty, and calls
\* findBestSeed
ApStart(n) ==
  /\ apPc \in {"idle", "end"}
  /\ apPc' = "seed"
  /\ apToLant' = n
  /\ apPrice' = 0 /\ apGold' = 0 /\ apGoldRead' = FALSE
  /\ apIdx' = 0 /\ apPlanted' = 0 /\ apBought' = 0 /\ apPlants' = 0
  /\ UNCHANGED nonPlantVars

\* findBestSeed returns: with an error or no seed autoPlant returns
ApSeed(ok, price) ==
  /\ apPc = "seed"
  /\ apPc' = IF ok THEN "gold" ELSE "end"
  /\ apPrice' = IF ok THEN price ELSE apPrice
  /\ UNCHANGED <<apToLant, apGold, apGoldRead, apIdx, apPlanted, apBought,
                 apPlants>>
  /\ UNCHANGED nonPlantVars

\* _, _, _, gold, _ := f.net.state.Get(); toLant is cut to what the gold
\* buys, and autoPlant returns if that is nothing
ApGold(gold) ==
  /\ apPc = "gold"
  /\ apGold' = gold /\ apGoldRead' = TRUE
  /\ IF Affordable(apToLant, apPrice, gold) > 0
       THEN /\ apToLant' = Affordable(apToLant, apPrice, gold)
            /\ apPc' = "buy"
       ELSE /\ apPc' = "end"
            /\ UNCHANGED apToLant
  /\ UNCHANGED <<apPrice, apIdx, apPlanted, apBought, apPlants>>
  /\ UNCHANGED nonPlantVars

\* the BuyGoods request: Num: int64(len(toLant)), Price: bestSeed.Price
ApBuyCall ==
  /\ apPc = "buy"
  /\ apBought' = apToLant
  /\ apPc' = "buywait"
  /\ UNCHANGED <<apToLant, apPrice, apGold, apGoldRead, apIdx, apPlanted,
                 apPlants>>
  /\ UNCHANGED nonPlantVars

\* it returns: on an error autoPlant returns, otherwise the plant loop starts
ApBuyReturn(ok) ==
  /\ apPc = "buywait"
  /\ apPc' = IF ok THEN "plant" ELSE "end"
  /\ UNCHANGED <<apToLant, apPrice, apGold, apGoldRead, apIdx, apPlanted,
                 apBought, apPlants>>
  /\ UNCHANGED nonPlantVars

\* for _, landID := range toLant: the Plant request for one land
ApPlantCall ==
  /\ apPc = "plant"
  /\ apIdx < apToLant
  /\ apPlants' = apPlants + 1
  /\ apPc' = "plantwait"
  /\ UNCHANGED <<apToLant, apPrice, apGold, apGoldRead, apIdx, apPlanted,
                 apBought>>
  /\ UNCHANGED nonPlantVars

\* it returns: planted++ unless it failed
ApPlantReturn(ok) ==
  /\ apPc = "plantwait"
  /\ apIdx' = apIdx + 1
  /\ apPlanted' = IF ok THEN apPlanted + 1 ELSE apPlanted
  /\ apPc' = "plant"
  /\ UNCHANGED <<apToLant, apPrice, apGold, apGoldRead, apBought, apPlants>>
  /\ UNCHANGED nonPlantVars

\* the loop ends; fertilize(toLant[:planted]) follows (FmFertCall) and
\* autoPlant returns
ApPlantDone ==
  /\ apPc = "plant"
  /\ apIdx = apToLant
  /\ apPc' = "end"
  /\ UNCHANGED <<apToLant, apPrice, apGold, apGoldRead, apIdx, apPlanted,
                 apBought, apPlants>>
  /\ UNCHANGED nonPlantVars

\* ------------------------------------------ findBestSeed (SpecSeed)

MaxGoods == 2

\* Cond.Type 1 is MIN_LEVEL; another type stands for all the others
CondMinLevel == 1
MinLevelCond(p) == [type |-> CondMinLevel, param |-> p]
OtherCond == [type |-> CondMinLevel + 1, param |-> 99]

\* the levels of the account, on both sides of the fallback's threshold, and
\* the Conds of a goods: at most one MIN_LEVEL condition, with others before
\* or after it
fallbackLevel == 28
Levels == {2, 30}
CondLists ==
  {<<>>, <<MinLevelCond(1)>>, <<MinLevelCond(3)>>,
   <<OtherCond, MinLevelCond(3)>>}

\* LimitCount and BoughtNum: no limit, a limit not reached, a limit reached
Limits == {<<0, 1>>, <<1, 0>>, <<1, 1>>}

\* shoppb.GoodsInfo: Unlocked, Conds, LimitCount, BoughtNum, Price; ItemId is
\* the position in GoodsList
Goods ==
  {[unlocked |-> u, conds |-> c, limit |-> l[1], bought |-> l[2],
    price |-> p] :
     u \in BOOLEAN, c \in CondLists, l \in Limits, p \in {1, 2}}
GoodsLists == UNION {[1..n -> Goods] : n \in 1..MaxGoods}

\* for _, cond := range goods.Conds: reqLevel and meetsConditions after the
\* loop, from position i on
RECURSIVE CondScan(_, _, _, _)
CondScan(conds, i, level, reqLevel) ==
  IF i > Len(conds) THEN [meets |-> TRUE, reqLevel |-> reqLevel]
  ELSE IF conds[i].type = CondMinLevel
    THEN IF level < conds[i].param
           THEN [meets |-> FALSE, reqLevel |-> conds[i].param]
           ELSE CondScan(conds, i + 1, level, conds[i].param)
  ELSE CondScan(conds, i + 1, level, reqLevel)

\* candidate.requiredLevel
requiredLevel(g, level) == CondScan(g.conds, 1, level, 0).reqLevel

\* the goods the first loop appends to available, as positions in GoodsList
IsAvailable(g, level) ==
  /\ g.unlocked
  /\ CondScan(g.conds, 1, level, 0).meets
  /\ ~(g.limit > 0 /\ g.bought >= g.limit)

available(goods, level) ==
  SelectSeq([i \in 1..Len(goods) |-> i],
            LAMBDA i : IsAvailable(goods[i], level))

\* A comparison that looks at the level only.
LowerLevelOnly(goods, level, c, best) ==
  requiredLevel(goods[c], level) < requiredLevel(goods[best], level)

\* c.requiredLevel < best.requiredLevel || (c.requiredLevel ==
\* best.requiredLevel && c.goods.Price < best.goods.Price)
LowerThenCheaper(goods, level, c, best) ==
  \/ requiredLevel(goods[c], level) < requiredLevel(goods[best], level)
  \/ /\ requiredLevel(goods[c], level) = requiredLevel(goods[best], level)
     /\ goods[c].price < goods[best].price

\* c.requiredLevel > best.requiredLevel
Higher(goods, level, c, best) ==
  requiredLevel(goods[c], level) > requiredLevel(goods[best], level)

\* best := available[0]; for _, c := range available[1:] { if ... { best =
\* c } }, from position i of available on, under the comparison of the mode
RECURSIVE PickBest(_, _, _, _, _, _)
PickBest(mode, goods, level, av, i, best) ==
  IF i > Len(av) THEN best
  ELSE LET c == av[i]
           better ==
             CASE mode = "force" -> LowerThenCheaper(goods, level, c, best)
               [] mode = "low" -> LowerLevelOnly(goods, level, c, best)
               [] OTHER -> Higher(goods, level, c, best)
       IN PickBest(mode, goods, level, av, i + 1,
                   IF better THEN c ELSE best)

\* for _, r := range rec { for _, c := range available { if c.goods.ItemId
\* == r.SeedID { return } } }: the goods found, 0 if none
RECURSIVE Recommended(_, _, _)
Recommended(rec, av, i) ==
  IF i > Len(rec) THEN 0
  ELSE IF \E k \in 1..Len(av) : av[k] = rec[i] THEN rec[i]
  ELSE Recommended(rec, av, i + 1)

\* what findBestSeed returns on a reply with goods
BestSeed(goods, level, force, rec) ==
  LET av == available(goods, level)
  IN IF Len(av) = 0 THEN 0
     ELSE IF force THEN PickBest("force", goods, level, av, 2, av[1])
     ELSE IF Recommended(rec, av, 1) # 0 THEN Recommended(rec, av, 1)
     ELSE IF level <= fallbackLevel
       THEN PickBest("low", goods, level, av, 2, av[1])
     ELSE PickBest("high", goods, level, av, 2, av[1])

\* the ShopInfo request
FbCall ==
  /\ fbPc \in {"idle", "ret"}
  /\ fbPc' = "ShopInfo"
  /\ fbGoods' = <<>> /\ fbLevel' = 0 /\ fbForce' = FALSE /\ fbRec' = <<>>
  /\ fbRet' = 0
  /\ UNCHANGED nonSeedVars

\* it failed, or its reply has no goods: an error is returned
FbNoGoods ==
  /\ fbPc = "ShopInfo"
  /\ fbPc' = "ret"
  /\ UNCHANGED <<fbGoods, fbLevel, fbForce, fbRec, fbRet>>
  /\ UNCHANGED nonSeedVars

\* it returned goods: the level is read and the seed chosen (the
\* recommendation is asked for only without ForceLowest)
FbReturn(goods, level, force, rec) ==
  /\ fbPc = "ShopInfo"
  /\ fbPc' = "ret"
  /\ fbGoods' = goods /\ fbLevel' = level /\ fbForce' = force
  /\ fbRec' = rec
  /\ fbRet' = BestSeed(goods, level, force, rec)
  /\ UNCHANGED nonSeedVars

\* -------------------------------- useSurplusFertilizer (SpecSurplus)

MaxItemCount == 2

normalFertilizer1h == 80001
normalFertilizer4h == 80002
normalFertilizer8h == 80003
normalFertilizer12h == 80004
organicFertilizer1h == 80011
organicFertilizer4h == 80012
organicFertilizer8h == 80013
organicFertilizer12h == 80014
normalContainerID == 1011
organicContainerID == 1012
containerLimitHours == 990
secondsPerHour == 3600

\* normalIDs and organicIDs, in the order the loops take them
normalIDs ==
  <<normalFertilizer12h, normalFertilizer8h, normalFertilizer4h,
    normalFertilizer1h>>
organicIDs ==
  <<organicFertilizer12h, organicFertilizer8h, organicFertilizer4h,
    organicFertilizer1h>>
FertilizerIDs ==
  {normalIDs[i] : i \in DOMAIN normalIDs}
    \cup {organicIDs[i] : i \in DOMAIN organicIDs}

\* normalHoursMap and organicHoursMap
hoursPerItem(id) ==
  CASE id \in {normalFertilizer12h, organicFertilizer12h} -> 12
    [] id \in {normalFertilizer8h, organicFertilizer8h} -> 8
    [] id \in {normalFertilizer4h, organicFertilizer4h} -> 4
    [] OTHER -> 1

\* The counts of the two containers in a Bag reply, in seconds.  Of the
\* normal one: well below the limit, within the last hour below it, at it,
\* above it; of the organic one: below the limit, at it
NormalCounts ==
  {970 * secondsPerHour, 989 * secondsPerHour + 1800,
   containerLimitHours * secondsPerHour, 1000 * secondsPerHour}
OrganicCounts ==
  {970 * secondsPerHour, containerLimitHours * secondsPerHour}

\* cfg.FertilizerTargetCount: no target, or a number of items to keep
TargetCounts == {0, 3}

\* The bags: a count for each fertilizer item, none or some of an organic
\* one, and for each container
Bags ==
  {nr @@ og @@ (normalContainerID :> n) @@ (organicContainerID :> o) :
     nr \in [{normalIDs[i] : i \in DOMAIN normalIDs} -> 0..MaxItemCount],
     og \in [{organicIDs[i] : i \in DOMAIN organicIDs} ->
               {0, MaxItemCount}],
     n \in NormalCounts, o \in OrganicCounts}

\* getItemCount
getItemCount(items, id) == IF id \in DOMAIN items THEN items[id] ELSE 0

\* containerHours: count / 3600
containerHours(items, containerID) ==
  getItemCount(items, containerID) \div secondsPerHour

\* totalFertilizerItemCount
RECURSIVE SumCounts(_, _)
SumCounts(items, ids) ==
  IF ids = {} THEN 0
  ELSE LET id == CHOOSE x \in ids : TRUE
       IN getItemCount(items, id) + SumCounts(items, ids \ {id})

totalFertilizerItemCount(items) == SumCounts(items, FertilizerIDs)

\* A batch that takes every item the container has room for.
UseCountNoTarget(count, maxBySpace, targetCount, totalItems) ==
  IF count > maxBySpace THEN maxBySpace ELSE count

\* useCount := count, cut to maxBySpace and, with a target, to the surplus
UseCount(count, maxBySpace, targetCount, totalItems) ==
  LET bySpace == IF count > maxBySpace THEN maxBySpace ELSE count
  IN IF targetCount > 0 /\ bySpace > totalItems - targetCount
       THEN totalItems - targetCount
       ELSE bySpace

\* for _, id := range ids { ... }: the loop from position i on, with the
\* locals hours and totalItems and the batch so far; break when a target is
\* set and no surplus is left
RECURSIVE FillLoop(_, _, _, _, _, _, _)
FillLoop(ids, i, items, targetCount, hours, totalItems, toUse) ==
  IF i > Len(ids)
    THEN [hours |-> hours, totalItems |-> totalItems, toUse |-> toUse]
  ELSE
    LET id == ids[i]
        count == getItemCount(items, id)
        maxBySpace == (containerLimitHours - hours) \div hoursPerItem(id)
        useCount == UseCount(count, maxBySpace, targetCount, totalItems)
    IN IF count <= 0 \/ maxBySpace <= 0
         THEN FillLoop(ids, i + 1, items, targetCount, hours, totalItems,
                       toUse)
       ELSE IF targetCount > 0 /\ totalItems - targetCount <= 0
         THEN [hours |-> hours, totalItems |-> totalItems, toUse |-> toUse]
       ELSE IF useCount > 0
         THEN FillLoop(ids, i + 1, items, targetCount,
                       hours + useCount * hoursPerItem(id),
                       totalItems - useCount,
                       [toUse EXCEPT ![id] = useCount])
       ELSE FillLoop(ids, i + 1, items, targetCount, hours, totalItems,
                     toUse)

\* if hours < containerLimitHours { the loop }
Fill(ids, items, targetCount, hours, totalItems, toUse) ==
  IF hours < containerLimitHours
    THEN FillLoop(ids, 1, items, targetCount, hours, totalItems, toUse)
    ELSE [hours |-> hours, totalItems |-> totalItems, toUse |-> toUse]

NoUse == [id \in FertilizerIDs |-> 0]

\* runFertilizerTask fetches the bag for its last step: getBagItems
SfBagCall ==
  /\ sfPc \in {"idle", "ret"}
  /\ sfPc' = "Bag"
  /\ sfBag' = [id \in {} |-> 0] /\ sfTarget' = 0
  /\ sfUse' = [id \in {} |-> 0]
  /\ sfNormalHours' = 0 /\ sfOrganicHours' = 0 /\ sfTotalItems' = 0
  /\ UNCHANGED nonSurplusVars

\* it failed: runFertilizerTask returns
SfBagFailed ==
  /\ sfPc = "Bag"
  /\ sfPc' = "ret"
  /\ UNCHANGED <<sfBag, sfTarget, sfUse, sfNormalHours, sfOrganicHours,
                 sfTotalItems>>
  /\ UNCHANGED nonSurplusVars

\* it returned items and useSurplusFertilizer(items) is called: it returns
\* at once when a target is set and not exceeded; otherwise the two loops
\* run, and the BatchUse request is sent if the batch is not empty
SfStart(items, targetCount) ==
  /\ sfPc = "Bag"
  /\ sfBag' = items /\ sfTarget' = targetCount
  /\ LET total == totalFertilizerItemCount(items)
         n == Fill(normalIDs, items, targetCount,
                   containerHours(items, normalContainerID), total, NoUse)
         o == Fill(organicIDs, items, targetCount,
                   containerHours(items, organicContainerID), n.totalItems,
                   n.toUse)
     IN IF targetCount > 0 /\ total <= targetCount
          THEN /\ sfUse' = NoUse
               /\ sfNormalHours' = 0 /\ sfOrganicHours' = 0
               /\ sfTotalItems' = total
               /\ sfPc' = "ret"
          ELSE /\ sfUse' = o.toUse
               /\ sfNormalHours' = n.hours /\ sfOrganicHours' = o.hours
               /\ sfTotalItems' = o.totalItems
               /\ sfPc' = IF o.toUse = NoUse THEN "ret" ELSE "BatchUse"
  /\ UNCHANGED nonSurplusVars

\* the BatchUse request returns, with an error or not
SfBatchReturn ==
  /\ sfPc = "BatchUse"
  /\ sfPc' = "ret"
  /\ UNCHANGED <<sfBag, sfTarget, sfUse, sfNormalHours, sfOrganicHours,
                 sfTotalItems>>
  /\ UNCHANGED nonSurplusVars

\* --------------------------------- UserState, handleNotify (SpecState)

MaxItems == 2

\* The fields of a BasicNotify's Basic that handleNotify reads, and of a
\* changed item's Item: int64 values of the server's choosing
NotifiedValues == {-1, 0, 2}
NotifiedCounts == {0, 3}
ExpItemIDs == {1101, 2}
GoldItemIDs == {1, 1001}
OtherItemID == 1002
NilItem == [id |-> 0, count |-> 0, nil |-> TRUE]
ChangedItems ==
  {[id |-> i, count |-> c, nil |-> FALSE] :
     i \in ExpItemIDs \cup GoldItemIDs \cup {OtherItemID},
     c \in NotifiedCounts}
    \cup {NilItem}

\* A field that is taken whenever it is not zero.
ProvidedNonZero(v) == v # 0

\* if notify.Basic.Level > 0 (Gold, Exp alike)
Provided(v) == v > 0

\* the BasicNotify branch, for a notify that decoded and has a Basic
ApplyBasic(s, b) ==
  [s EXCEPT !.Level = IF Provided(b.Level) THEN b.Level ELSE @,
            !.Gold = IF Provided(b.Gold) THEN b.Gold ELSE @,
            !.Exp = IF Provided(b.Exp) THEN b.Exp ELSE @]

\* An exp counter that is item 1101 alone.
IsExpItemOne(id) == id = 1101

\* id == 1101 || id == 2
IsExpItem(id) == id \in ExpItemIDs

\* id == 1 || id == 1001
IsGoldItem(id) == id \in GoldItemIDs

\* for _, chg := range notify.Items { ... }, from position i on
RECURSIVE ApplyItems(_, _, _)
ApplyItems(s, items, i) ==
  IF i > Len(items) THEN s
  ELSE IF items[i].nil THEN ApplyItems(s, items, i + 1)
  ELSE IF IsExpItem(items[i].id)
    THEN ApplyItems([s EXCEPT !.Exp = items[i].count], items, i + 1)
  ELSE IF IsGoldItem(items[i].id)
    THEN ApplyItems([s EXCEPT !.Gold = items[i].count], items, i + 1)
  ELSE ApplyItems(s, items, i + 1)

\* Login got its reply: n.state.SetFromLogin(b.Gid, b.Level, b.Exp, b.Gold,
\* b.Name), on the goroutine of connectAndRun
UsLogin(level, gold) ==
  /\ ~usLoggedIn
  /\ usLoggedIn' = TRUE
  /\ state' = [GID |-> 7, Name |-> "nick", Level |-> level, Exp |-> 1,
               Gold |-> gold]
  /\ UNCHANGED <<usPc, usMsg>>
  /\ UNCHANGED nonUserVars

\* readLoop reads a message: a BasicNotify (with a Basic or without), an
\* ItemNotify, or the Response to a worker's request
UsRead(m) ==
  /\ usPc = "read"
  /\ usPc' = "handle"
  /\ usMsg' = m
  /\ UNCHANGED <<state, usLoggedIn>>
  /\ UNCHANGED nonUserVars

\* handleMessage: a Response goes to its caller's channel and the worker
\* decodes it; a notify goes through handleNotify.  Of an ItemNotify that
\* was handled usMsg keeps the kind.
UsHandle ==
  /\ usPc = "handle"
  /\ usPc' = "read"
  /\ state' =
       CASE usMsg.kind = "BasicNotify" /\ usMsg.hasBasic ->
              ApplyBasic(state, usMsg.basic)
         [] usMsg.kind = "ItemNotify" -> ApplyItems(state, usMsg.items, 1)
         [] OTHER -> state
  /\ usMsg' = IF usMsg.kind = "ItemNotify"
                THEN [kind |-> "ItemNotify", items |-> <<>>]
                ELSE usMsg
  /\ UNCHANGED usLoggedIn
  /\ UNCHANGED nonUserVars

\* ------------------------------------------------------------ Init, Spec

\* NewInstance: nothing connected yet
Init ==
  /\ running = FALSE /\ err = ErrNone /\ instNet = NoNet /\ stopCh = "nil"
  /\ startPc = "init" /\ crPc = "idle" /\ crCaller = "start" /\ crNet = NoNet
  /\ crErr = NilErr
  /\ wdPc = "off" /\ wdNet = NoNet /\ wdReason = DisconnectUnknown
  /\ backoff = reconnectBackoffInit /\ loginTimeoutCount = 0
  /\ stopPc = "idle"
  /\ closePc = [k \in Closers |-> "idle"]
  /\ closeNet = [k \in Closers |-> NoNet]
  /\ nNets = 0
  /\ disconnectOnce = [s \in Sessions |-> FALSE]
  /\ disconnectReason = [s \in Sessions |-> DisconnectUnknown]
  /\ ctxDone = [s \in Sessions |-> FALSE]
  /\ conn = [s \in Sessions |-> "nil"]
  /\ tasks = [s \in Sessions |-> "off"]
  /\ pingPc = "off"
  /\ firstAttempt = [s \in Sessions |-> DisconnectUnknown]
  /\ reasonWrites = [s \in Sessions |-> 0]
  /\ clientSeq = 0 /\ pending = {}
  /\ call = [c \in Callers |-> IdleCall]
  /\ ch = [c \in Callers |-> NoResult]
  /\ timer = [c \in Callers |-> FALSE]
  /\ sent = [c \in Callers |-> 0]
  /\ rlPc = "off"
  /\ hbPc = "off" /\ wkPc = "off"
  /\ consecutiveFailures = 0
  /\ kickInFlight = {}
  /\ nInsts = 0 /\ instances = NoInst
  /\ sbPc = "idle" /\ sbRet = "none"
  /\ others = [i \in Others |-> "none"]
  /\ fPc = "sleep" /\ fIdx = 0 /\ fCall = "none"
  /\ fEligible = 0 /\ fChanged = FALSE
  /\ fStatus = NoStatus /\ fHarvested = FALSE
  /\ fToPlant = 0 /\ fPlanted = 0
  /\ fLog = <<>>
  /\ fPlantOk = {} /\ fFert = {}
  /\ nWorkers = 0 /\ fwLimit = 0 /\ dailyBuyCount = 0 /\ dailyDate = NoDate
  /\ lastBuyRecent = FALSE /\ fwPc = "none" /\ fwCoupons = 0
  /\ today = 0 /\ boughtToday = 0
  /\ tkPc = "wait" /\ tkReply = NoReply /\ tkClaimable = <<>> /\ tkIdx = 0
  /\ tkLog = <<>>
  /\ subscribers = {}
  /\ lgChan = [c \in Chans |-> "none"]
  /\ lgBuf = [c \in Chans |-> 0]
  /\ lgUnsub = [c \in Chans |-> "idle"]
  /\ lgEmit = [e \in Emitters |-> [pc |-> "idle", rest |-> {}]]
  /\ lgPanic = FALSE
  /\ hbWarns = NoWarns /\ nPending = 0
  /\ serverSeq = 0 /\ hmPc = "idle" /\ hmIn = 0 /\ hmOld = 0
  /\ maxSeen = 0 /\ reqSeq = 0
  /\ lcWriter = FALSE /\ lcReaders = 0
  /\ lcFields = [f \in {"totalLands", "unlockedLands", "lands", "harvestInfos"} |-> 0]
  /\ upPc = 0 /\ nUpdates = 0 /\ gtPc = [g \in 1..MaxReaders |-> 0]
  /\ gtRet = [g \in 1..MaxReaders |->
                [f \in {"totalLands", "unlockedLands", "lands"} |-> 0]]
  /\ apPc = "idle" /\ apToLant = 0 /\ apPrice = 0 /\ apGold = 0
  /\ apGoldRead = FALSE /\ apIdx = 0 /\ apPlanted = 0
  /\ apBought = 0 /\ apPlants = 0
  /\ fbPc = "idle" /\ fbGoods = <<>> /\ fbLevel = 0 /\ fbForce = FALSE
  /\ fbRec = <<>> /\ fbRet = 0
  /\ sfPc = "idle" /\ sfBag = [id \in {} |-> 0] /\ sfTarget = 0
  /\ sfUse = [id \in {} |-> 0] /\ sfNormalHours = 0 /\ sfOrganicHours = 0
  /\ sfTotalItems = 0
  /\ state = [GID |-> 0, Name |-> "", Level |-> 0, Exp |-> 0, Gold |-> 0]
  /\ usPc = "read" /\ usMsg = [kind |-> "none"] /\ usLoggedIn = FALSE

\* Start, connectAndRun, the watchdog up to its reconnect loop, Stop, Close
Supervisor ==
  \/ StartBegin \/ StartReturn
  \/ CrConnect \/ CrLoginFailed \/ CrLoginFailedReturn \/ CrPublish
  \/ CrStartTasks
  \/ WdTop \/ WdSessionDone \/ WdStopped \/ WdDecide \/ WdSleep
  \/ WdSleepStopped
  \/ StopBegin \/ StopEnd
  \/ \E k \in Closers : CloseDisconnect(k) \/ CloseConn(k) \/ CloseDrain(k)

Next ==
  \/ Supervisor
  \/ WdBackoffElapsed \/ WdReconnectResult
  \/ \E o \in LoginOutcomes : LoginOutcome(o)
  \/ \E s \in Sessions, r \in EventReasons : SessionEvent(s, r)
  \/ \E s \in Sessions : HeartbeatTimeout(s) \/ TasksExit(s)
  \/ PingExit

Spec == Init /\ [][Next]_vars

\* The RPC layer of the detailed Network and the goroutines that use it
Multiplexer ==
  \/ \E c \in Callers : SendRequest(c) \/ SendWriteFailed(c) \/ SendRecv(c)
                          \/ TimerFire(c)
  \/ RlReadError \/ \E m \in ServerMsgs : RlHandle(m)
  \/ HbTick \/ HbResult \/ HbDisconnect \/ HbExit
  \/ WkTick \/ WkResult \/ WkExit
  \/ LoginSend \/ LoginResult

\* The first Network of an instance in detail, with what acts on it: Start
\* and connectAndRun, Stop and Close.  The watchdog only reads a Network (Done,
\* GetDisconnectReason) and is left to Spec.
NextNet ==
  \/ StartBegin \/ StartReturn
  \/ CrConnect \/ CrLoginFailed \/ CrLoginFailedReturn \/ CrPublish
  \/ CrStartTasks
  \/ StopBegin \/ StopEnd
  \/ \E k \in Closers : CloseDisconnect(k) \/ CloseConn(k) \/ CloseDrain(k)
  \/ Multiplexer

SpecNet == Init /\ [][NextNet]_vars

\* Network.Close run by caller k
CloseSteps(k) == CloseDisconnect(k) \/ CloseConn(k) \/ CloseDrain(k)

\* connectAndRun's own steps (Login itself is the server's to answer)
ConnectAndRunSteps ==
  \/ CrConnect \/ CrLoginFailed \/ CrLoginFailedReturn \/ CrPublish
  \/ CrStartTasks \/ CloseSteps("cr")

\* The goroutine that runs Start, the watchdog goroutine, and a caller of Stop
StartThread == StartReturn \/ (crCaller = "start" /\ ConnectAndRunSteps)

WatchdogThread ==
  \/ WdTop \/ WdSessionDone \/ WdStopped \/ WdDecide \/ WdSleep
  \/ WdSleepStopped \/ WdBackoffElapsed \/ WdReconnectResult
  \/ (crCaller = "watchdog" /\ ConnectAndRunSteps)

StopThread == StopEnd \/ CloseSteps("stop")

\* The Go scheduler runs every goroutine that can take a step, and timers
\* fire.  No fairness is assumed of the server (the Login reply, connection
\* failures) nor of the user (Stop is called or not).
FairSpec ==
  /\ Spec
  /\ WF_vars(StartThread)
  /\ WF_vars(WatchdogThread)
  /\ WF_vars(StopThread)

\* The Go scheduler runs every goroutine that can take a step, and timers
\* fire: a caller of sendRequestWithTimeout goes on, a timer callback runs.
\* No fairness is assumed of the server, the connection, or the user.
FairNet ==
  /\ SpecNet
  /\ \A c \in Callers :
       /\ WF_vars(SendRequest(c) \/ SendRecv(c))
       /\ WF_vars(TimerFire(c))

\* pingLoop's write fails on the detailed Network
PingWriteFailed == SessionEvent(NetId, DisconnectPingFailed)

\* The detailed Network with its pingLoop as well
NextTasks == NextNet \/ PingWriteFailed \/ PingExit

SpecTasks == Init /\ [][NextTasks]_vars

\* As FairNet, and the goroutines started on the Network go on: a write
\* succeeds or fails (writeMessage has a deadline), the heartbeat task and
\* the worker take the result of a call that has returned, and a
\* select that is reached again and again with ctx.Done() ready takes that
\* case in the end (Go chooses among the ready cases at random).
FairTasks ==
  /\ SpecTasks
  /\ \A c \in Callers :
       /\ WF_vars(SendRequest(c) \/ SendWriteFailed(c) \/ SendRecv(c))
       /\ WF_vars(TimerFire(c))
  /\ WF_vars(HbResult \/ HbDisconnect) /\ SF_vars(HbExit)
  /\ WF_vars(WkResult) /\ SF_vars(WkExit)
  /\ WF_vars(PingExit)

\* ------------------------------------------- the reconnect loop at length

\* The Network of a failed attempt is garbage once connectAndRun has returned
\* and its caller has taken the result: net was a local of connectAndRun, it
\* was never published in inst.net, no task was started on it, and Close has
\* ended its goroutines (or Connect never started them).  The object is
\* forgotten and its identity is free for the next NewNetwork.
Collect ==
  /\ crPc = "idle"
  /\ crErr # NilErr
  /\ nNets > 0 /\ crNet = nNets
  /\ instNet # nNets /\ wdNet # nNets
  /\ tasks[nNets] = "off"
  /\ conn[nNets] # "open"
  /\ nNets = NetId => pingPc # "run"
  /\ closePc["cr"] = "idle"
  /\ closeNet["stop"] # nNets
  /\ nNets' = nNets - 1
  /\ crNet' = NoNet
  /\ closeNet' = [closeNet EXCEPT !["cr"] = NoNet]
  /\ disconnectOnce' = [disconnectOnce EXCEPT ![nNets] = FALSE]
  /\ disconnectReason' = [disconnectReason EXCEPT ![nNets] = DisconnectUnknown]
  /\ ctxDone' = [ctxDone EXCEPT ![nNets] = FALSE]
  /\ conn' = [conn EXCEPT ![nNets] = "nil"]
  /\ firstAttempt' = [firstAttempt EXCEPT ![nNets] = DisconnectUnknown]
  /\ reasonWrites' = [reasonWrites EXCEPT ![nNets] = 0]
  /\ pingPc' = IF nNets = NetId THEN "off" ELSE pingPc
  /\ UNCHANGED <<instVars, startPc, crPc, crCaller, crErr, wdVars, stopVars,
                 closePc, tasks, muxVars>>
  /\ UNCHANGED <<mgrVars, farmVars, workerVars>>

\* Start, connectAndRun and the watchdog when Stop is never called, with
\* sessions as events and the Networks of failed attempts forgotten: the
\* reconnect loop can go round as often as the server makes it.
NextRetry ==
  \/ StartBegin \/ StartReturn
  \/ ConnectAndRunSteps
  \/ WdTop \/ WdSessionDone \/ WdDecide \/ WdSleep
  \/ WdBackoffElapsed \/ WdReconnectResult
  \/ \E o \in LoginOutcomes : LoginOutcome(o)
  \/ \E s \in Sessions, r \in EventReasons : SessionEvent(s, r)
  \/ \E s \in Sessions : HeartbeatTimeout(s) \/ TasksExit(s)
  \/ PingExit
  \/ Collect

SpecRetry == Init /\ [][NextRetry]_vars

\* ---------------------------------------------------------------- Manager

\* An IsRunning that always answers no.
IsRunningNo(i) == FALSE

\* inst.IsRunning() of Instance object i
IsRunning(i) == IF i = InstId THEN running ELSE others[i] = "running"

\* fmt.Errorf("bot #%d already running", account.ID)
ErrAlreadyRunning == "already running"

\* the error of inst.Start(), which StartBot returns as it is
ErrStart == "start failed"

\* if inst, ok := m.instances[account.ID]; ok && inst.IsRunning()
Rejects == instances # NoInst /\ IsRunning(instances)

nonMgrVars == <<instVars, crVars, wdVars, stopVars, closeVars, reasonVars,
                netVars, taskVars, muxVars, farmVars, workerVars>>

\* StartBot on an account whose registered instance is running: the error
\* is returned (m.mu is taken and released)
SbReject ==
  /\ sbPc = "idle"
  /\ Rejects
  /\ sbRet' = ErrAlreadyRunning
  /\ UNCHANGED <<nInsts, instances, sbPc, others, nonMgrVars>>

\* StartBot otherwise, the first time: NewInstance makes the Instance
\* followed in detail, and inst.Start() is called with m.mu held
SbNew ==
  /\ sbPc = "idle"
  /\ ~Rejects
  /\ nInsts = 0
  /\ nInsts' = InstId
  /\ sbPc' = "start"
  /\ UNCHANGED <<instances, sbRet, others, nonMgrVars>>

\* inst.Start() of the first Instance begins
SbStart == sbPc = "start" /\ StartBegin

\* inst.Start() has returned: its error is returned, or the instance is
\* registered and nil returned; m.mu is released
SbReturn ==
  /\ sbPc = "start"
  /\ startPc \in {"done", "failed"}
  /\ crPc = "idle"
  /\ IF startPc = "failed"
       THEN sbRet' = ErrStart /\ UNCHANGED instances
       ELSE sbRet' = "nil" /\ instances' = InstId
  /\ sbPc' = "idle"
  /\ UNCHANGED <<nInsts, others, nonMgrVars>>

\* StartBot otherwise, a later time: a new Instance object is made and
\* started; of it only the outcome of Start is followed
SbOther(ok) ==
  /\ sbPc = "idle"
  /\ ~Rejects
  /\ nInsts >= InstId /\ nInsts < MaxInsts
  /\ nInsts' = nInsts + 1
  /\ IF ok
       THEN /\ instances' = nInsts + 1
            /\ others' = [others EXCEPT ![nInsts + 1] = "running"]
            /\ sbRet' = "nil"
       ELSE /\ sbRet' = ErrStart
            /\ UNCHANGED <<instances, others>>
  /\ UNCHANGED <<sbPc, nonMgrVars>>

\* the session of a later Instance ends (its watchdog sets running = false)
\* or its watchdog reconnects (connectAndRun sets running = true)
OtherFlip(i) ==
  /\ others[i] # "none"
  /\ others' = [others EXCEPT ![i] = IF @ = "running" THEN "down" ELSE "running"]
  /\ UNCHANGED <<nInsts, instances, sbPc, sbRet, nonMgrVars>>

\* The Manager starting bots for one account, the first Instance with its
\* connectAndRun and watchdog in detail, when StopBot is never called.
NextMgr ==
  \/ SbReject \/ SbNew \/ SbStart \/ SbReturn
  \/ \E ok \in BOOLEAN : SbOther(ok)
  \/ \E i \in Others : OtherFlip(i)
  \/ StartReturn
  \/ ConnectAndRunSteps
  \/ WdTop \/ WdSessionDone \/ WdDecide \/ WdSleep
  \/ WdBackoffElapsed \/ WdReconnectResult
  \/ \E o \in LoginOutcomes : LoginOutcome(o)
  \/ \E s \in Sessions, r \in EventReasons : SessionEvent(s, r)
  \/ \E s \in Sessions : HeartbeatTimeout(s) \/ TasksExit(s)
  \/ PingExit

SpecMgr == Init /\ [][NextMgr]_vars

\* One Farm worker going round its loop, with the server's replies as
\* inputs.
NextFarm ==
  \/ FmTick
  \/ \E ok \in BOOLEAN, n \in 0..MaxTiles : FmLands(ok, n)
  \/ \E rpc \in {"UnlockLand", "UpgradeLand"} : FmUnlockCall(rpc)
  \/ \E ok \in BOOLEAN : FmUnlockReturn(ok)
  \/ \E st \in Statuses : FmAnalyze(st)
  \/ FmRefetchCall
  \/ \E ok \in BOOLEAN, st \in Statuses : FmRefetchReturn(ok, st)
  \/ FmBatchSkip \/ FmBatchCall
  \/ \E ok \in BOOLEAN : FmBatchReturn(ok)
  \/ FmAutoPlant
  \/ FmRemoveCall \/ FmRemoveReturn
  \/ FmShopCall
  \/ \E ok \in BOOLEAN, price \in 1..MaxPrice, gold \in 0..MaxGold :
       FmShopReturn(ok, price, gold)
  \/ FmBuyCall
  \/ \E ok \in BOOLEAN : FmBuyReturn(ok)
  \/ FmPlantCall
  \/ \E ok \in BOOLEAN : FmPlantReturn(ok)
  \/ FmPlantDone
  \/ FmFertCall
  \/ \E ok \in BOOLEAN : FmFertReturn(ok)
  \/ FmFertDone

SpecFarm == Init /\ [][NextFarm]_vars

\* The fertilizer workers of one account's successive sessions.
SpecFert == Init /\ [][NextFert]_vars

\* The Task worker going round its loop.
SpecTask == Init /\ [][NextTask]_vars

\* One Logger with its subscribers and the goroutines that log through it.
SpecLog == Init /\ [][NextLog]_vars

\* The heartbeat task of one session and what it logs.
SpecHb == Init /\ [][NextHb]_vars

\* ------------------------------- sendRequestWithTimeout, the write apart

\* n.pending[seq] = &pendingCall{ch: ch, timer: timer}, under pendingMu;
\* writeMessage is called
SendInsert(c) ==
  /\ call[c].pc = "insert"
  /\ pending' = pending \cup {call[c].seq}
  /\ call' = [call EXCEPT ![c].pc = "write"]
  /\ UNCHANGED <<supVars, reasonVars, netVars, taskVars, clientSeq, ch, timer,
                 sent, rlPc, hbPc, wkPc, consecutiveFailures,
                 kickInFlight>>
  /\ UNCHANGED <<mgrVars, farmVars, workerVars>>

\* writeMessage returned nil: the caller blocks on <-ch
SendWritten(c) ==
  /\ call[c].pc = "write"
  /\ conn[NetId] = "open"
  /\ call' = [call EXCEPT ![c].pc = "wait"]
  /\ UNCHANGED <<supVars, reasonVars, netVars, taskVars, clientSeq, tableVars,
                 rlPc, hbPc, wkPc, consecutiveFailures, kickInFlight>>
  /\ UNCHANGED <<mgrVars, farmVars, workerVars>>

\* A failed write that leaves the entry in the table.
SendWriteErrorKeep(c) ==
  /\ call[c].pc = "write"
  /\ \E e \in WriteErrors :
       call' = [call EXCEPT ![c].pc = "ret", ![c].ret = ErrResult(e)]
  /\ timer' = [timer EXCEPT ![c] = FALSE]
  /\ UNCHANGED <<supVars, reasonVars, netVars, taskVars, clientSeq, pending,
                 ch, sent, rlPc, hbPc, wkPc,
                 consecutiveFailures, kickInFlight>>
  /\ UNCHANGED <<mgrVars, farmVars, workerVars>>

\* writeMessage failed (always so on a closed connection):
\* delete(n.pending, seq) under pendingMu; timer.Stop(); return the write
\* error
SendWriteError(c) ==
  /\ call[c].pc = "write"
  /\ \E e \in WriteErrors :
       call' = [call EXCEPT ![c].pc = "ret", ![c].ret = ErrResult(e)]
  /\ pending' = pending \ {call[c].seq}
  /\ timer' = [timer EXCEPT ![c] = FALSE]
  /\ UNCHANGED <<supVars, reasonVars, netVars, taskVars, clientSeq,
                 ch, sent, rlPc, hbPc, wkPc,
                 consecutiveFailures, kickInFlight>>
  /\ UNCHANGED <<mgrVars, farmVars, workerVars>>

\* The detailed Network with the insert into the pending table and the
\* write of the frame as two steps, between which the timer, the read loop
\* and the heartbeat task can act on the entry; Stop is never called.
NextWrite ==
  \/ StartBegin \/ StartReturn
  \/ CrConnect \/ CrLoginFailed \/ CrLoginFailedReturn \/ CrPublish
  \/ CrStartTasks
  \/ CloseDisconnect("cr") \/ CloseConn("cr") \/ CloseDrain("cr")
  \/ \E c \in Callers : SendInsert(c) \/ SendWritten(c) \/ SendWriteError(c)
                          \/ SendRecv(c) \/ TimerFire(c)
  \/ RlReadError \/ \E m \in ServerMsgs : RlHandle(m)
  \/ HbTick \/ HbResult \/ HbDisconnect \/ HbExit
  \/ WkTick \/ WkResult \/ WkExit
  \/ LoginSend \/ LoginResult

SpecWrite == Init /\ [][NextWrite]_vars

\* serverSeq alone: envelopes arrive in any order, requests are built
NextSeq == (\E v \in ServerSeqs : HmRecv(v)) \/ HmLoad \/ HmCas \/ SrBuild

SpecSeq == Init /\ [][NextSeq]_vars

\* LandCache alone: the Farm worker's Update calls and a reader's Get calls
NextCache ==
  \/ UpLock \/ UpAssign \/ UpUnlock
  \/ \E g \in Getters : GetRLock(g) \/ GetRead(g) \/ GetRUnlock(g)

SpecCache == Init /\ [][NextCache]_vars

\* autoPlant's purchase alone, with the numbers of lands, prices and gold
NextPlant ==
  \/ \E n \in 1..MaxPlant : ApStart(n)
  \/ \E ok \in BOOLEAN, price \in 0..MaxSeedPrice : ApSeed(ok, price)
  \/ \E gold \in 0..MaxUserGold : ApGold(gold)
  \/ ApBuyCall
  \/ \E ok \in BOOLEAN : ApBuyReturn(ok)
  \/ ApPlantCall
  \/ \E ok \in BOOLEAN : ApPlantReturn(ok)
  \/ ApPlantDone

SpecPlant == Init /\ [][NextPlant]_vars

\* findBestSeed alone, on every shop reply
NextSeed ==
  \/ FbCall \/ FbNoGoods
  \/ /\ fbPc = "ShopInfo"
     /\ \E n \in 1..MaxGoods : \E goods \in [1..n -> Goods] :
          \E level \in Levels, force \in BOOLEAN :
            \E rec \in IF force THEN {<<>>}
                        ELSE {<<>>} \cup {<<i>> : i \in 1..MaxGoods} :
              FbReturn(goods, level, force, rec)

SpecSeed == Init /\ [][NextSeed]_vars

\* useSurplusFertilizer alone, on every bag
NextSurplus ==
  \/ SfBagCall \/ SfBagFailed
  \/ /\ sfPc = "Bag"
     /\ \E targetCount \in TargetCounts :
          \E items \in Bags : SfStart(items, targetCount)
  \/ SfBatchReturn

SpecSurplus == Init /\ [][NextSurplus]_vars

\* the messages of SpecState
BasicNotifies ==
  {[kind |-> "BasicNotify", hasBasic |-> TRUE,
    basic |-> [Level |-> l, Gold |-> g, Exp |-> x]] :
     l \in NotifiedValues, g \in NotifiedValues, x \in NotifiedValues}
    \cup {[kind |-> "BasicNotify", hasBasic |-> FALSE]}

\* UserState alone: the Login reply is stored, messages are read and handled
NextState ==
  \/ \E level \in {1, 3}, gold \in {1, 2} : UsLogin(level, gold)
  \/ /\ usPc = "read"
     /\ \/ \E m \in BasicNotifies : UsRead(m)
        \/ \E n \in 0..MaxItems : \E items \in [1..n -> ChangedItems] :
             UsRead([kind |-> "ItemNotify", items |-> items])
        \/ UsRead([kind |-> "Response"])
  \/ UsHandle

SpecState == Init /\ [][NextState]_vars

\* The supervisor with Stop callable on a new instance as well
NextStop == Next \/ StopFresh

SpecStop == Init /\ [][NextStop]_vars

\* =================================================================== claims

\* The active session (the one published in inst.net) has Kickout as its
\* recorded reason.
KickedOut == instNet # NoNet /\ disconnectReason[instNet] = DisconnectKickout

\* The watchdog is in its reconnect loop ahead of an attempt, or an attempt
\* (connectAndRun) is before the point where it publishes its Network.
WdReconnecting ==
  \/ wdPc \in {"sleep", "sleeping"}
  \/ crPc \in {"connect", "login", "loginfail", "closing", "publish"}

\* C2 as stated: once the active session's reason is Kickout no further
\* Network is created and the watchdog is never in its reconnect loop, and
\* when the watchdog has returned the instance is not running and the error
\* string is "duankai: kickout".
C2_AsStated ==
  KickedOut =>
    /\ nNets = instNet
    /\ ~WdReconnecting
    /\ wdPc = "done" /\ stopPc = "idle" =>
         ~running /\ err = ErrDisconnected(DisconnectKickout)

\* C2 amended: once the active session's reason is Kickout no further Network
\* is created and the watchdog is never in its reconnect loop; if Stop has
\* not been called, then when the watchdog has returned the instance is not
\* running and the error string is "duankai: kickout".
C2_Kickout ==
  KickedOut =>
    /\ nNets = instNet
    /\ ~WdReconnecting
    /\ wdPc = "done" /\ stopCh = "open" =>
         ~running /\ err = ErrDisconnected(DisconnectKickout)

C2_Witness ==
  /\ KickedOut
  /\ wdPc = "done"
  /\ stopCh = "open"
  /\ ~running
  /\ err = "duankai: kickout"

NonRetryable == {DisconnectKickout, DisconnectClosed}

\* The watchdog leaves its decision point: into the reconnect loop exactly
\* for a reason other than Kickout and Closed; for Kickout and Closed it
\* publishes the reason as the error, returns, and no Network is created.
DecisionStep ==
  wdPc = "decide" /\ wdPc' # "decide" =>
    /\ wdPc' = "sleep" <=> disconnectReason[wdNet] \notin NonRetryable
    /\ disconnectReason[wdNet] \in NonRetryable =>
         /\ wdPc' = "done"
         /\ err' = ErrDisconnected(disconnectReason[wdNet])
         /\ nNets' = nNets

\* The watchdog, waiting on a session that has terminated, goes on to its
\* decision point.
ObserveStep ==
  wdPc = "select" /\ ctxDone[wdNet] /\ wdPc' # "select" => wdPc' = "decide"

RetryableTable ==
  \A r \in Reasons : Retryable(r) <=> r \notin NonRetryable

\* C3 as stated: after the active session terminates the watchdog decides,
\* and enters the reconnect loop iff the reason is retryable (all reasons but
\* Kickout and Closed); otherwise it sets the error to the reason and returns
\* without a connection attempt.
C3_AsStated == [][ObserveStep /\ DecisionStep]_vars

\* C3 amended: the same decision, for a watchdog that takes the session's
\* Done signal; when the stop signal is closed too it may return at once,
\* whatever the reason, without setting the error.
C3_Decision == [][DecisionStep]_vars /\ []RetryableTable

C3_Witness ==
  /\ wdPc = "done"
  /\ wdReason = DisconnectClosed
  /\ err = "duankai: closed"
  /\ nNets = wdNet

\* The session the watchdog waits on has ended with a retryable reason.
EndedRetryable ==
  /\ wdPc = "select"
  /\ ctxDone[wdNet]
  /\ Retryable(disconnectReason[wdNet])

\* The watchdog is back at the top of its loop and Stop was never called:
\* the instance runs a Network newer than the one watched before, its
\* heartbeat and workers are started, backoff is 2 s, the counter is 0.
Reconnected ==
  wdPc = "top" /\ stopCh = "open" =>
    /\ running
    /\ err = ErrNone
    /\ instNet = nNets
    /\ instNet # wdNet
    /\ tasks[instNet] # "off"
    /\ backoff = 2
    /\ loginTimeoutCount = 0

\* C4: a session that ended with a retryable reason leads to a reconnect
\* attempt unless Stop is called (or the model's bound on Network objects is
\* reached), and after a successful attempt the instance is running on a
\* fresh session with heartbeat and workers started, backoff 2 s, counter 0.
C4_Reconnect ==
  /\ []Reconnected
  /\ EndedRetryable ~>
       (wdPc = "connecting" \/ stopCh = "closed" \/ nNets = MaxSessions)

C4_Witness ==
  /\ wdPc = "top"
  /\ stopCh = "open"
  /\ disconnectReason[1] = DisconnectHeartbeatTimeout
  /\ instNet = 2
  /\ running

\* C1: disconnectReason of a Network is assigned at most once, and what is
\* read from it once the session is cancelled (by the watchdog in particular)
\* is the reason of the first disconnectWithReason call, whichever of
\* pingLoop, readLoop, the Kickout handler, the heartbeat task, Login and
\* Close made it.
C1_FirstWriterWins ==
  /\ \A s \in Sessions :
       /\ reasonWrites[s] <= 1
       /\ ctxDone[s] =>
            /\ firstAttempt[s] # DisconnectUnknown
            /\ disconnectReason[s] = firstAttempt[s]
  /\ wdPc = "decide" => wdReason = firstAttempt[wdNet]

\* The watchdog has read Kickout although Stop's Close has called
\* disconnectWithReason(DisconnectClosed) on the same Network since.
C1_Witness ==
  /\ wdPc = "decide"
  /\ wdReason = DisconnectKickout
  /\ closeNet["stop"] = wdNet
  /\ closePc["stop"] = "conn"
  /\ disconnectReason[wdNet] = DisconnectKickout

\* C5: once Stop and the watchdog have both returned, the instance is not
\* running and every Network whose tasks were started is cancelled.
C5_Stopped ==
  stopCh = "closed" /\ stopPc = "idle" /\ wdPc = "done" =>
    /\ ~running
    /\ \A s \in Sessions : tasks[s] # "off" => ctxDone[s]

\* ------------------------------------------------- claims on the RPC layer

\* What a returned call returned is a body, a *ServerError, or the error
\* with text x.
Ret(c, x) == call[c].ret.kind = "err" /\ call[c].ret.msg = x
RetReply(c) == call[c].ret.kind \in {"body", "ServerError"}

ResponseEffect(q, code, msg) ==
  /\ call' = call
  /\ IF q \in pending
       THEN /\ pending' = pending \ {q}
            /\ \A c \in Callers :
                 IF call[c].seq = q
                   THEN ch'[c] = Response(code, msg) /\ ~timer'[c]
                   ELSE ch'[c] = ch[c] /\ timer'[c] = timer[c]
       ELSE pending' = pending /\ ch' = ch /\ timer' = timer

\* C7: handling a Response with clientSeq N resolves the pending call N and
\* no other; when no call N is pending the Response is dropped and the table
\* is as before.
C7_Response ==
  [][\A m \in ServerMsgs :
       m.type = 2 => ResponseEffect(m.seq, m.code, m.msg) \/ ~RlHandle(m)]_vars

\* The worker's call, the later of two, has been resolved by a Response
\* while the heartbeat's call is still pending.
C7_Witness ==
  /\ Registered("hb")
  /\ call["hb"].seq < call["worker"].seq
  /\ call["worker"].pc = "wait"
  /\ ch["worker"].kind = "resp"

\* C8: a call whose frame was written returns (with the timeout error if
\* nothing else resolves it) and its entry is removed, whenever the timer
\* callback runs relative to the insertion of the entry.
C8_Timeout ==
  \A c \in Callers :
    call[c].pc = "wait" ~> (call[c].pc = "ret" /\ ~Registered(c))

\* C9: once the session's context is cancelled the pending table is empty.
C9_Drained == ctxDone[NetId] => pending = {}

\* C10: a call that was in flight when the Kickout notify was handled
\* returns the "connection closed" error.
C10_Kickout ==
  \A c \in Callers :
    call[c].pc = "ret" /\ call[c].seq \in kickInFlight => Ret(c, TextClosed)

\* ------------------------------------------------- claims C11 to C20

\* C11: a caller that receives a Response whose meta.ErrorCode is not 0
\* returns the ServerError made of its own service and method and of the
\* Response's code and message, and that return records no disconnect
\* reason and does not cancel the session context.
C11_ServerError ==
  [][\A c \in Callers :
       call[c].pc = "wait" /\ ch[c].kind = "resp" /\ ch[c].code # 0
         /\ SendRecv(c) =>
       /\ call'[c].ret =
            ServerError(Service(c), Method(c), ch[c].code, ch[c].msg)
       /\ UNCHANGED <<disconnectOnce, disconnectReason, ctxDone>>]_vars

\* The worker's AllLands has returned a ServerError and the session is as
\* active as before.
C11_Witness ==
  /\ call["worker"].pc = "ret"
  /\ call["worker"].ret =
       ServerError("gamepb.plantpb.PlantService", "AllLands", 1, "busy")
  /\ ~ctxDone[NetId]
  /\ disconnectReason[NetId] = DisconnectUnknown
  /\ running

\* The heartbeat task handles the result of a Heartbeat RPC: a failure adds
\* one to the count of failures in a row and a success makes it 0; the task
\* goes on to disconnect exactly on the third failure in a row; handling a
\* result records and cancels nothing by itself.
HbCounts ==
  hbPc = "call" /\ hbPc' # "call" =>
    LET failed == call["hb"].ret.kind # "body" IN
      /\ consecutiveFailures' = IF failed THEN consecutiveFailures + 1 ELSE 0
      /\ hbPc' = "disconnect" <=> failed /\ consecutiveFailures + 1 = 3
      /\ hbPc' \in {"disconnect", "loop"}
      /\ UNCHANGED <<disconnectOnce, disconnectReason, ctxDone>>

\* Only the heartbeat task, on its way out after the third failure, calls
\* disconnectWithReason(DisconnectHeartbeatTimeout); the call cancels the
\* session, and records the reason unless another reason came first.
HbRecords ==
  /\ firstAttempt'[NetId] = DisconnectHeartbeatTimeout
        /\ firstAttempt[NetId] # DisconnectHeartbeatTimeout
      => hbPc = "disconnect" /\ consecutiveFailures = 3
  /\ hbPc = "disconnect" /\ hbPc' # "disconnect" =>
       /\ ctxDone'[NetId]
       /\ disconnectReason'[NetId] =
            IF disconnectOnce[NetId] THEN disconnectReason[NetId]
            ELSE DisconnectHeartbeatTimeout

\* C12: the heartbeat task records HeartbeatTimeout and cancels the session
\* exactly when three Heartbeat RPCs in a row have failed; two failures in a
\* row do not, and a success resets the count to 0.
C12_Heartbeat == [][HbCounts /\ HbRecords]_vars

\* Three failures in a row have ended the session with HeartbeatTimeout.
C12_Witness ==
  /\ hbPc = "exit"
  /\ consecutiveFailures = 3
  /\ disconnectReason[NetId] = DisconnectHeartbeatTimeout
  /\ ctxDone[NetId]

\* strings.HasPrefix
HasPrefix(s, p) == Len(s) >= Len(p) /\ SubSeq(s, 1, Len(p)) = p

LimitText == "denglu chaoshi da shangxian"

\* The watchdog takes the result of a reconnect attempt.  A success resets
\* the count of login timeouts; an attempt that ended with the reason
\* LoginTimeout adds one; any other failure leaves the count as it is.  The
\* watchdog returns exactly on the third login timeout, with the error that
\* starts with the limit text.
StrikeStep ==
  wdPc = "connecting" /\ wdPc' # "connecting" =>
    LET timedOut == crErr = ConnectError(DisconnectLoginTimeout) IN
      /\ loginTimeoutCount' =
           IF crErr = NilErr THEN 0
           ELSE IF timedOut THEN loginTimeoutCount + 1
           ELSE loginTimeoutCount
      /\ wdPc' = "done" <=> timedOut /\ loginTimeoutCount + 1 = 3
      /\ wdPc' = "done" => HasPrefix(err', LimitText)

\* Nothing but the result of an attempt (or of an active session that ended
\* with LoginTimeout) changes the count.
StrikeFrame ==
  loginTimeoutCount' # loginTimeoutCount => wdPc \in {"connecting", "decide"}

\* After the surrender the watchdog stays returned, the error stays, and no
\* Network is created.
Surrendered ==
  wdPc = "done" /\ HasPrefix(err, LimitText) =>
    wdPc' = "done" /\ err' = err /\ nNets' <= nNets /\ crPc' = "idle"

\* C13: the watchdog surrenders on the third login timeout since the last
\* successful login, with the error "denglu chaoshi da shangxian (3/3)", and
\* makes no further attempt; only a successful reconnect resets the count,
\* other failed attempts in between leave it as it is.
C13_Strikes == [][StrikeStep /\ StrikeFrame /\ Surrendered]_vars

\* The third login timeout came after five failed attempts, two of them of
\* another kind: the backoff had reached 32 s.
C13_Witness ==
  /\ wdPc = "done"
  /\ err = "denglu chaoshi da shangxian (3/3)"
  /\ loginTimeoutCount = 3
  /\ backoff = 32

\* C14: when no Login has ever succeeded and the last attempt ended with a
\* login timeout, the supervisor has not given up (Start has not returned
\* the error, the watchdog has not returned) before three Networks were
\* tried and the error is the login-timeout-limit error.
C14_ThreeAttempts ==
  /\ instNet = NoNet
  /\ crPc = "idle"
  /\ crErr = ConnectError(DisconnectLoginTimeout)
  /\ startPc = "failed" \/ wdPc = "done"
  => nNets = 3 /\ HasPrefix(err, LimitText)

\* The watchdog takes the result of a reconnect attempt: after a success
\* the delay is 2 s again; after a failure it is doubled, but not beyond
\* 60 s (when the watchdog returns instead, the delay is of no use any more).
\* Nothing else changes the delay.
BackoffStep ==
  /\ wdPc = "connecting" /\ wdPc' # "connecting" =>
       backoff' = IF crErr = NilErr THEN 2
                  ELSE IF wdPc' = "done" THEN backoff
                  ELSE IF 2 * backoff > 60 THEN 60 ELSE 2 * backoff
  /\ backoff' # backoff => wdPc = "connecting"

\* A reconnect attempt starts only from the select of the reconnect loop,
\* when time.After(backoff) has fired.
SleepFirst ==
  crCaller' = "watchdog" /\ crPc' = "connect" /\ crPc # "connect" =>
    wdPc = "sleeping" /\ wdPc' = "connecting" /\ backoff' = backoff

\* C15: the reconnect delay starts at 2 s, is doubled after a failed attempt
\* up to 60 s, is 2 s again after a successful reconnect, is always between
\* 2 s and 60 s, and every reconnect attempt follows a sleep of that delay.
C15_Backoff ==
  /\ [](backoff >= 2 /\ backoff <= 60 /\ (wdPc = "off" => backoff = 2))
  /\ [][BackoffStep /\ SleepFirst]_vars

\* The delay has been capped: the sixth attempt in a row waits 60 s.
C15_Witness == wdPc = "sleeping" /\ backoff = 60

\* pingLoop's writeMessage has failed on the detailed Network
PingFailed == pingPc = "failed"

\* C16 as stated: once a ping write has failed the reason of the session
\* is PingFailed, whatever the read loop has done.
C16_PingReason ==
  PingFailed /\ firstAttempt[NetId] \in {DisconnectPingFailed, DisconnectReadError}
    => disconnectReason[NetId] = DisconnectPingFailed

\* C16: once a ping write has failed the session is cancelled and one
\* reason has been stored in all: that of the first disconnectWithReason
\* call, which is PingFailed unless another call came before pingLoop's
\* (ReadError when the read loop was first).
C16_PingFirstWriter ==
  /\ [](PingFailed =>
         /\ ctxDone[NetId]
         /\ reasonWrites[NetId] = 1
         /\ disconnectReason[NetId] = firstAttempt[NetId])
  /\ [][pingPc = "run" /\ pingPc' = "failed" =>
          disconnectReason'[NetId] = IF disconnectOnce[NetId]
                                      THEN disconnectReason[NetId]
                                      ELSE DisconnectPingFailed]_vars

\* The ping failure came first on the running session and the watchdog has
\* read PingFailed from it.
C16_Witness ==
  /\ PingFailed
  /\ wdPc = "decide" /\ wdNet = NetId /\ wdReason = DisconnectPingFailed
  /\ ctxDone[NetId] /\ reasonWrites[NetId] = 1

\* C17: the heartbeat task and the workers of two Networks of the instance
\* are never running at once: when the tasks of a new session are started,
\* those of every earlier session have returned.
C17_OneSession ==
  \A s, t \in Sessions : s # t => ~(tasks[s] = "run" /\ tasks[t] = "run")

\* StartBot called while m.mu is free and the registered instance is running
StartBotOnRunning ==
  /\ sbPc = "idle"
  /\ \/ instances = InstId /\ running
     \/ instances \in Others /\ others[instances] = "running"
  /\ SbReject \/ SbNew \/ \E ok \in BOOLEAN : SbOther(ok)

\* C18: StartBot for an account whose registered instance is running
\* returns the already-running error, makes no Instance and no Network, and
\* leaves the registry and the instance as they are.
C18_StartBotRunning ==
  [][StartBotOnRunning =>
       /\ sbRet' = ErrAlreadyRunning
       /\ UNCHANGED <<nInsts, instances, others, nNets, conn, instVars, crVars,
                      wdVars>>]_vars

\* StartBot has been rejected: the first Instance is registered and running,
\* and it is the only one ever made.
C18_Witness ==
  /\ sbRet = ErrAlreadyRunning /\ sbPc = "idle"
  /\ instances = InstId /\ running /\ nInsts = InstId
  /\ tasks[instNet] = "run"

\* C19: once the context of a session is cancelled, its heartbeat task, its
\* worker and its pingLoop return, wherever they were at the cancel.
C19_TasksEnd ==
  ctxDone[NetId] /\ hbPc # "off" ~>
    hbPc = "exit" /\ wkPc = "exit" /\ pingPc \in {"exit", "failed"}

\* The place of each RPC in the order of a Farm tick
Rank(rpc) ==
  CASE rpc \in {"UnlockLand", "UpgradeLand"} -> 1
    [] rpc = "AllLands" -> 2
    [] rpc = "WeedOut" -> 3
    [] rpc = "Insecticide" -> 4
    [] rpc = "WaterLand" -> 5
    [] rpc = "Harvest" -> 6
    [] rpc = "RemovePlant" -> 7
    [] rpc = "ShopInfo" -> 8
    [] rpc = "BuyGoods" -> 9
    [] rpc = "Plant" -> 10
    [] rpc = "Fertilize" -> 11

\* After the first AllLands the RPCs of the tick were issued in the order
\* of their ranks (each no earlier in the order than the one before it);
\* only the per-land ones occur more than once.
InOrder(log) ==
  /\ log # <<>> => log[1] = "AllLands"
  /\ \A i \in 2..(Len(log) - 1) :
       /\ Rank(log[i]) <= Rank(log[i + 1])
       /\ Rank(log[i]) = Rank(log[i + 1]) => Rank(log[i]) \in {1, 10, 11}

\* AllLands is fetched again exactly when an unlock or upgrade succeeded.
Refetched ==
  fPc \notin {"lands", "unlock"} /\ fLog # <<>> =>
    (fChanged <=> \E i \in 2..Len(fLog) : fLog[i] = "AllLands")

\* An RPC is issued only when the worker is in no other.
OneAtATime ==
  fLog' # fLog => fCall = "none" /\ fCall' = fLog'[Len(fLog')]

\* C20: within one Farm tick the RPCs are issued one after the return of
\* the other, in the order unlock/upgrade, AllLands again if one succeeded,
\* WeedOut, Insecticide, WaterLand, Harvest, RemovePlant, ShopInfo, BuyGoods,
\* Plant land by land, Fertilize land by land.
C20_FarmOrder ==
  /\ [](InOrder(fLog) /\ Refetched)
  /\ [][OneAtATime]_vars

\* A tick that issued every kind of RPC and has returned from the last
\* Fertilize.
C20_Witness ==
  /\ fCall = "none" /\ fPc = "sleep"
  /\ fLog = <<"AllLands", "UpgradeLand", "AllLands", "WeedOut", "Insecticide",
              "WaterLand", "Harvest", "RemovePlant", "ShopInfo", "BuyGoods",
              "Plant", "Fertilize">>

\* C21: every land a Fertilize request is issued for in a Farm tick is a
\* land whose Plant request succeeded in that tick.
C21_FertilizePlanted == fFert \subseteq fPlantOk

\* C22  With a daily limit above zero, the packs bought for the account on
\* one calendar day never exceed the limit, whatever worker bought them.
C22_DailyLimit == fwLimit > 0 => boughtToday <= fwLimit

\* the tasks of the reply the claim speaks of, as indices into allTasks:
\* unlocked, not claimed, progress at or above the total
Due(reply) ==
  { i \in DOMAIN AllTasks(reply) :
      LET task == AllTasks(reply)[i]
      IN  /\ task.IsUnlocked /\ ~task.IsClaimed
          /\ task.Progress >= task.TotalProgress }

\* ... and whose total is above zero
DuePositive(reply) ==
  { i \in Due(reply) : AllTasks(reply)[i].TotalProgress > 0 }

Range(f) == { f[i] : i \in DOMAIN f }

\* a tick that got a TaskInfo has run to its end
TickDone == tkPc = "idle" /\ tkReply.TaskInfo

\* C23  A tick that got a TaskInfo reply has, at its end, issued
\* ClaimTaskReward for exactly the tasks of the three lists that are
\* unlocked, not claimed and have progress >= total.
C23_ClaimsDue == TickDone => Range(tkLog) = Due(tkReply)

\* C23, amended  ... and have a total above zero; one request for each, in
\* the order growth, daily, ordinary; and before the end what was issued is
\* among them.
C23_ClaimsDuePositive ==
  /\ Range(tkLog) \subseteq DuePositive(tkReply)
  /\ \A i, j \in DOMAIN tkLog : i < j => tkLog[i] < tkLog[j]
  /\ TickDone => Range(tkLog) = DuePositive(tkReply)

\* a tick over a growth and a daily task that are due, ended with both
\* claimed
C23_Witness ==
  /\ TickDone
  /\ Len(tkReply.GrowthTasks) = 1 /\ Len(tkReply.DailyTasks) = 1
  /\ tkLog = <<1, 2>>

\* a round of the range loop of some emit on channel c
SendStep(e, c) ==
  /\ lgEmit[e].pc = "range" /\ c \in lgEmit[e].rest
  /\ lgEmit'[e].rest = lgEmit[e].rest \ {c}

\* C24  emit visits every subscriber registered when it took the lock and
\* no channel that was removed; each send step is ready to run whatever the
\* buffers hold, puts the entry in the channel when its buffer has room and
\* drops it only when the buffer is full, and leaves every other channel as
\* it was; no send is ever executed on a closed channel.
C24_EmitNonBlocking ==
  /\ [](/\ ~lgPanic
        /\ \A e \in Emitters :
             lgEmit[e].pc = "range" =>
               /\ lgEmit[e].rest \subseteq subscribers
               /\ \A c \in lgEmit[e].rest :
                    lgChan[c] = "open" /\ ENABLED EmitSend(e, c))
  /\ [][\A e \in Emitters, c \in Chans :
          SendStep(e, c) =>
            /\ lgBuf'[c] = IF lgBuf[c] < MaxBuffer THEN lgBuf[c] + 1
                                                   ELSE lgBuf[c]
            /\ \A d \in Chans \ {c} : lgBuf'[d] = lgBuf[d]
            /\ lgChan' = lgChan]_vars
  /\ [][\A e \in Emitters :
          lgEmit[e].pc = "idle" /\ lgEmit'[e].pc = "range" =>
            lgEmit'[e].rest = subscribers]_vars

\* an emit is in its range loop and has still to visit a subscriber whose
\* buffer is full, while a channel that was unsubscribed has been closed
C24_Witness ==
  /\ \E c \in Chans : lgChan[c] = "closed"
  /\ \E e \in Emitters :
       /\ lgEmit[e].pc = "range"
       /\ \E c \in lgEmit[e].rest : lgBuf[c] = MaxBuffer

\* the WARN entries of the heartbeat task
WarnCount ==
  hbWarns.failed + hbWarns.cleared + hbWarns.stale + hbWarns.giveup

\* the step at which the disconnect reason becomes HeartbeatTimeout
BecomesHeartbeatTimeout ==
  /\ disconnectReason[NetId] # DisconnectHeartbeatTimeout
  /\ disconnectReason'[NetId] = DisconnectHeartbeatTimeout

\* C25  When the disconnect reason becomes HeartbeatTimeout, the heartbeat
\* task has logged exactly three WARN entries for the three failures in a
\* row.
C25_ThreeWarns == [][BecomesHeartbeatTimeout => WarnCount = 3]_vars

\* C25, amended  At that step three heartbeats in a row have failed and the
\* task has logged one WARN entry for each, then the one that announces
\* the disconnect: at least four; the others are those of the drains that
\* removed something (at the second and third failure) and of the
\* diagnostic (at most one a round).
C25_FourWarns ==
  /\ [](/\ hbWarns.failed = consecutiveFailures
        /\ hbWarns.giveup = IF consecutiveFailures >= maxHeartbeatFailures
                               THEN 1 ELSE 0
        /\ hbWarns.cleared <= IF consecutiveFailures >= 2
                                THEN consecutiveFailures - 1 ELSE 0
        /\ hbWarns.stale <= consecutiveFailures + 1)
  /\ [][BecomesHeartbeatTimeout =>
          /\ consecutiveFailures = maxHeartbeatFailures
          /\ hbWarns.failed = 3 /\ hbWarns.giveup = 1
          /\ hbWarns.cleared <= 2 /\ hbWarns.stale <= 3
          /\ WarnCount >= 4]_vars

\* the reason is HeartbeatTimeout after three failures with nothing pending
\* and no diagnostic: four WARN entries
C25_Witness ==
  /\ disconnectReason[NetId] = DisconnectHeartbeatTimeout
  /\ hbPc = "exit"
  /\ hbWarns = [failed |-> 3, cleared |-> 0, stale |-> 0, giveup |-> 1]

\* C26  While running is true the published error string is empty, and a
\* step that sets the error string to a non-empty value is taken with
\* running false and leaves it false.
C26_RunningNoError ==
  /\ [](running => err = ErrNone)
  /\ [][err' # err /\ err' # ErrNone => ~running /\ ~running']_vars

\* running again, with the error string cleared, after a reconnect attempt
\* that failed and published its error
C26_Witness ==
  /\ running /\ err = ErrNone
  /\ crCaller = "watchdog" /\ crPc = "tasks"
  /\ backoff > reconnectBackoffInit

\* Instance object i has a watchdog that has not returned, or a session
\* whose connection is open.  Of a later Instance only the outcome of Start
\* is followed: once started it has one or the other until it is stopped.
Live(i) ==
  IF i = InstId
    THEN \/ wdPc \notin {"off", "done"}
         \/ \E s \in Sessions : s <= nNets /\ conn[s] = "open"
    ELSE others[i] # "none"

\* C27  At most one Instance of the account has a live watchdog or a live
\* session, and an Instance that is not the registered one is never
\* running.
C27_OneLiveInstance ==
  /\ Cardinality({i \in 1..MaxInsts : Live(i)}) <= 1
  /\ running => instances \in {NoInst, InstId}

\* the callers that are inside sendRequestWithTimeout
InCall == {c \in Callers : call[c].pc \notin {"idle", "ret"}}

\* C28  Every allocation takes the value after the last one given out, so
\* the seqs of the calls in progress differ from each other, lie in
\* 1..clientSeq, as do the keys of the pending table, and no insert finds
\* its key in the table already.
C28_SeqUnique ==
  /\ [](/\ \A c \in InCall : call[c].seq \in 1..clientSeq
        /\ \A c, d \in InCall : c # d => call[c].seq # call[d].seq
        /\ pending \subseteq 1..clientSeq)
  /\ [][/\ clientSeq' >= clientSeq
        /\ \A c \in Callers :
             call[c].pc = "idle" /\ call'[c].pc = "insert" =>
               /\ clientSeq' = clientSeq + 1
               /\ call'[c].seq = clientSeq'
               /\ \A d \in Callers \ {c} : call[d].seq < call'[c].seq
        /\ \A c \in Callers :
             call[c].pc = "insert" /\ call'[c].pc = "write" =>
               /\ call[c].seq \notin pending
               /\ pending' = pending \cup {call[c].seq}]_vars

\* the heartbeat task and the worker are both waiting, each with its own
\* entry in the table, after the Login call used the first seq
C28_Witness ==
  /\ call["hb"].pc = "wait" /\ call["worker"].pc = "wait"
  /\ Registered("hb") /\ Registered("worker")
  /\ call["hb"].seq # call["worker"].seq
  /\ clientSeq = 3

\* caller c's writeMessage has failed and sendRequestWithTimeout returns
WriteFails(c) == call[c].pc = "write" /\ call'[c].pc = "ret"

\* C29  When the write of the frame fails the call returns the write error
\* at once, without a receive on its channel; its own seq is not in the
\* pending table afterwards and its timer is stopped; the other entries of
\* the table, and the channels and timers of the other calls, are as before.
C29_WriteFailure ==
  [][\A c \in Callers :
       WriteFails(c) =>
         /\ call'[c].ret.kind = "err" /\ call'[c].ret.msg \in WriteErrors
         /\ ch' = ch
         /\ call[c].seq \notin pending'
         /\ pending' \ {call[c].seq} = pending \ {call[c].seq}
         /\ ~timer'[c]
         /\ \A d \in Callers \ {c} :
              timer'[d] = timer[d] /\ call'[d] = call[d]]_vars

\* the worker's call has returned a write error and its entry is gone,
\* while the heartbeat's call is still registered and waiting
C29_Witness ==
  /\ call["worker"].pc = "ret"
  /\ call["worker"].ret.kind = "err"
  /\ call["worker"].ret.msg \in WriteErrors
  /\ ~Registered("worker")
  /\ call["hb"].pc = "wait" /\ Registered("hb")

\* the heartbeat task takes the error of its Heartbeat call
HeartbeatFailed ==
  /\ hbPc = "call" /\ hbPc' # "call"
  /\ consecutiveFailures' = consecutiveFailures + 1

DrainError == ErrResult(TextHeartbeatDrain)

\* C30  At the second and at the third heartbeat failure in a row every
\* call in the pending table gets the heartbeat drain error on its channel,
\* its timer is stopped and the table is empty after the step; the calls
\* that are not in the table are left as they are; at the first failure
\* the table, the channels and the timers are untouched.  An entry of the
\* table always has an empty channel, so the drain never waits, and a
\* waiter whose channel holds a result can take it.
C30_HeartbeatDrain ==
  /\ [](\A c \in Callers :
          /\ Registered(c) /\ call[c].pc \in {"write", "wait"} =>
               ch[c] = NoResult
          /\ call[c].pc = "wait" /\ ch[c] # NoResult => ENABLED SendRecv(c))
  /\ [][HeartbeatFailed =>
          IF consecutiveFailures' >= 2
            THEN /\ pending' = {}
                 /\ \A c \in Callers :
                      IF Registered(c)
                        THEN ch'[c] = DrainError /\ ~timer'[c]
                        ELSE ch'[c] = ch[c] /\ timer'[c] = timer[c]
            ELSE UNCHANGED <<pending, ch, timer>>]_vars
  /\ [][\A c \in Callers :
          call[c].pc = "wait" /\ call'[c].pc = "ret" /\ ch[c] = DrainError =>
            call'[c].ret = DrainError]_vars

\* after the second failure in a row: the worker's call, which was in the
\* table, has the drain error on its channel and the table is empty
C30_Witness ==
  /\ consecutiveFailures = 2 /\ hbPc = "loop"
  /\ call["worker"].pc = "wait"
  /\ ch["worker"] = DrainError
  /\ pending = {}

\* C31  When Login has returned an error and connectAndRun reads the
\* session's reason, a reason has been recorded on that session: the login
\* failure itself if nothing was recorded before it.
C31_LoginReason ==
  crPc = "loginfail" =>
    /\ disconnectOnce[crNet]
    /\ disconnectReason[crNet] # DisconnectUnknown

\* C32  Once handleMessage is through with an envelope, serverSeq is the
\* largest positive ServerSeq received so far (0 if none); while it is at
\* work serverSeq is no larger than that; no step decreases serverSeq; and
\* a request that is built carries the value serverSeq has at that moment.
C32_ServerSeq ==
  /\ [](/\ hmPc = "idle" => serverSeq = maxSeen
        /\ serverSeq \in 0..maxSeen)
  /\ [][serverSeq' >= serverSeq]_vars
  /\ [][reqSeq' # reqSeq => reqSeq' = serverSeq]_vars

\* a smaller ServerSeq has arrived after a larger one and been handled, and
\* a request was built after that
C32_Witness ==
  /\ hmPc = "idle" /\ hmIn = 1 /\ serverSeq = 2 /\ maxSeen = 2
  /\ reqSeq = 2

\* C33  What a Get call returns is all of one Update call (or all the zero
\* value before the first): the total, the unlocked count and the land list
\* carry the same Update's number; and mu is never held by a writer together
\* with a reader.
C33_OneSnapshot ==
  /\ \A g \in Getters :
       gtPc[g] = GetDone =>
         /\ gtRet[g]["totalLands"] = gtRet[g]["unlockedLands"]
         /\ gtRet[g]["unlockedLands"] = gtRet[g]["lands"]
  /\ ~(lcWriter /\ lcReaders > 0)

\* two Get calls have returned, one the first Update's values and one the
\* second's, and the third Update is in the middle of its assignments
C33_Witness ==
  /\ gtPc[1] = GetDone /\ gtRet[1]["lands"] = 1
  /\ gtPc[2] = GetDone /\ gtRet[2]["lands"] = 2
  /\ upPc = 3 /\ nUpdates = 3

\* C34  In one autoPlant call the seeds of the BuyGoods request times the
\* seed's price are no more than the gold that was read, no more Plant
\* requests are issued than seeds were requested, and with less gold than
\* the price of one seed neither request is issued.
C34_WithinGold ==
  /\ apBought * apPrice <= apGold
  /\ apPlants <= apBought
  /\ apGoldRead /\ apGold < apPrice => apBought = 0 /\ apPlants = 0

\* three lands to plant, gold for two seeds: two were bought and planted
C34_Witness ==
  /\ apPc = "end" /\ apIdx = 2 /\ apPrice = 2 /\ apGold = 4
  /\ apBought = 2 /\ apPlants = 2 /\ apPlanted = 2

\* the level a goods asks for (0: none), and whether a goods is one that may
\* be bought: unlocked, its level reached, its purchase limit not used up
MinLevel(g) ==
  IF \E i \in 1..Len(g.conds) : g.conds[i].type = CondMinLevel
    THEN (CHOOSE c \in Range(g.conds) : c.type = CondMinLevel).param
    ELSE 0

Buyable(g) ==
  /\ g.unlocked
  /\ MinLevel(g) <= fbLevel
  /\ g.limit = 0 \/ g.bought < g.limit

\* C35  The goods findBestSeed returns is unlocked, asks for no more than
\* the current level and has purchases left; with ForceLowest no goods that
\* may be bought asks for a lower level, and none that asks for the same
\* level is cheaper.
C35_BestSeed ==
  fbRet # 0 =>
    /\ Buyable(fbGoods[fbRet])
    /\ fbForce =>
         \A j \in 1..Len(fbGoods) :
           Buyable(fbGoods[j]) =>
             /\ MinLevel(fbGoods[fbRet]) <= MinLevel(fbGoods[j])
             /\ MinLevel(fbGoods[fbRet]) = MinLevel(fbGoods[j]) =>
                  fbGoods[fbRet].price <= fbGoods[j].price

\* with ForceLowest the second of two goods of the same level was returned,
\* being the cheaper one
C35_Witness ==
  /\ fbPc = "ret" /\ fbForce /\ fbRet = 2
  /\ Buyable(fbGoods[1])
  /\ MinLevel(fbGoods[1]) = MinLevel(fbGoods[2])
  /\ fbGoods[2].price < fbGoods[1].price

\* the hours a batch adds to a container, and the items it takes
BatchHours(ids) ==
  sfUse[ids[1]] * hoursPerItem(ids[1]) + sfUse[ids[2]] * hoursPerItem(ids[2])
  + sfUse[ids[3]] * hoursPerItem(ids[3])
  + sfUse[ids[4]] * hoursPerItem(ids[4])

BatchItems(ids) ==
  sfUse[ids[1]] + sfUse[ids[2]] + sfUse[ids[3]] + sfUse[ids[4]]

BagItems(ids) ==
  sfBag[ids[1]] + sfBag[ids[2]] + sfBag[ids[3]] + sfBag[ids[4]]

\* C36  The batch of a BatchUse request takes no more of an item than the
\* bag holds; a container it adds hours to has, by its count in hours plus
\* the hours of the batch, no more than 990; and with a target T > 0 the
\* fertilizer items of the bag less those of the batch are at least T.
C36_SurplusBatch ==
  sfPc = "BatchUse" =>
    /\ \A id \in FertilizerIDs : sfUse[id] \in 0..sfBag[id]
    /\ BatchHours(normalIDs) > 0 =>
         sfBag[normalContainerID] \div secondsPerHour + BatchHours(normalIDs)
           <= containerLimitHours
    /\ BatchHours(organicIDs) > 0 =>
         sfBag[organicContainerID] \div secondsPerHour
           + BatchHours(organicIDs) <= containerLimitHours
    /\ sfTarget > 0 =>
         BagItems(normalIDs) + BagItems(organicIDs)
           - BatchItems(normalIDs) - BatchItems(organicIDs) >= sfTarget

\* a batch that fills the normal container to its limit and leaves exactly
\* the target in the bag
C36_Witness ==
  /\ sfPc = "BatchUse" /\ sfTarget = 3
  /\ sfBag[normalContainerID] \div secondsPerHour + BatchHours(normalIDs)
       = containerLimitHours
  /\ BatchItems(organicIDs) > 0
  /\ BagItems(normalIDs) + BagItems(organicIDs)
       - BatchItems(normalIDs) - BatchItems(organicIDs) = sfTarget

\* the step of handleNotify on a BasicNotify that has a Basic
BasicStep ==
  /\ usPc = "handle" /\ usPc' = "read"
  /\ usMsg.kind = "BasicNotify" /\ usMsg.hasBasic

\* C37 as stated  A BasicNotify overwrites Level, Gold and Exp with the
\* notified fields that are not zero and leaves the others, GID and Name.
C37_BasicNotify ==
  [][BasicStep =>
       state' = [state EXCEPT
         !.Level = IF usMsg.basic.Level # 0 THEN usMsg.basic.Level ELSE @,
         !.Gold = IF usMsg.basic.Gold # 0 THEN usMsg.basic.Gold ELSE @,
         !.Exp = IF usMsg.basic.Exp # 0 THEN usMsg.basic.Exp ELSE @]]_vars

\* C37  A BasicNotify overwrites Level, Gold and Exp with the notified
\* fields that are greater than zero and leaves the others, zero or
\* negative, and GID and Name as they are.
C37_BasicNotifyPositive ==
  [][BasicStep =>
       /\ \A f \in {"Level", "Gold", "Exp"} :
            state'[f] = IF usMsg.basic[f] >= 1 THEN usMsg.basic[f]
                        ELSE state[f]
       /\ state'.GID = state.GID /\ state'.Name = state.Name]_vars

\* after Login a notify with a new gold, no level and a negative exp was
\* handled: the gold is the notified one, level and exp are Login's
C37_Witness ==
  /\ usLoggedIn /\ usPc = "read" /\ usMsg.kind = "BasicNotify"
  /\ usMsg.hasBasic
  /\ usMsg.basic = [Level |-> 0, Gold |-> 2, Exp |-> -1]
  /\ state = [GID |-> 7, Name |-> "nick", Level |-> 3, Exp |-> 1,
              Gold |-> 2]

\* the count of the last item of the list whose id is one of ids, or old if
\* it has none
LastCount(items, ids, old) ==
  LET hits == {i \in 1..Len(items) : ~items[i].nil /\ items[i].id \in ids}
  IN IF hits = {} THEN old
     ELSE items[CHOOSE i \in hits : \A j \in hits : j <= i].count

\* C38  The step of handleNotify on an ItemNotify leaves Exp at the count
\* notified for item 1101 or 2 (the last of them, if several), Gold at the
\* count notified for item 1 or 1001, each unchanged if no such item is in
\* the notify, and GID, Name and Level as they are; the delivery of a
\* Response leaves the whole UserState as it is.
C38_ItemNotify ==
  [][/\ usPc = "handle" /\ usPc' = "read" /\ usMsg.kind = "ItemNotify" =>
          /\ state'.Exp = LastCount(usMsg.items, {1101, 2}, state.Exp)
          /\ state'.Gold = LastCount(usMsg.items, {1, 1001}, state.Gold)
          /\ state'.GID = state.GID /\ state'.Name = state.Name
          /\ state'.Level = state.Level
     /\ usPc = "handle" /\ usPc' = "read" /\ usMsg.kind = "Response" =>
          state' = state]_vars

\* after Login an ItemNotify was handled that has left Exp at a notified
\* count of 3 and Gold at a notified count of 0
C38_Witness ==
  /\ usLoggedIn /\ usPc = "read" /\ usMsg.kind = "ItemNotify"
  /\ state = [GID |-> 7, Name |-> "nick", Level |-> 3, Exp |-> 3,
              Gold |-> 0]

\* C39  The channel of every entry of the pending table is empty, so each
\* of the four senders that hold pendingMu can complete its send whenever
\* it has come to it: the timer callback, the Response handler of readLoop,
\* the drain of Close and the drain of the heartbeat.
C39_PendingEmpty ==
  /\ \A c \in Callers : Registered(c) => ch[c] = NoResult
  /\ \A c \in Callers : timer[c] => ENABLED TimerFire(c)
  /\ rlPc = "read" /\ conn[NetId] = "open" =>
       \A m \in ServerMsgs : ENABLED RlHandle(m)
  /\ \A k \in Closers : closePc[k] = "drain" => ENABLED CloseDrain(k)
  /\ hbPc = "call" /\ call["hb"].pc = "ret" => ENABLED HbResult

\* Close is at its drain with the worker's call in the table, waiting, and
\* the heartbeat's call failed by an earlier sender
C39_Witness ==
  /\ closePc["stop"] = "drain" /\ closeNet["stop"] = NetId
  /\ Registered("worker") /\ call["worker"].pc = "wait"
  /\ ch["hb"] # NoResult

\* a step of a Stop call, and an instance that is as a Stop leaves it
StopStep == stopPc' # stopPc \/ closePc'["stop"] # closePc["stop"]

Stopped ==
  /\ ~running /\ stopCh # "open"
  /\ instNet # NoNet =>
       /\ disconnectOnce[instNet] /\ ctxDone[instNet]
       /\ conn[instNet] = "closed"

\* C40  Stop can be called whenever no Stop is in progress, on a new
\* instance too, and each of its steps can be taken when it has come to it;
\* stopCh goes to closed from open only; and the steps of a Stop on an
\* instance that is as a Stop leaves it change neither running, stopCh, the
\* session, its reason, its context nor its connection.
C40_StopIdempotent ==
  /\ [](/\ stopPc = "idle" /\ startPc \in {"init", "done"} =>
             ENABLED (StopBegin \/ StopFresh)
        /\ stopPc = "closing" /\ closePc["stop"] # "done" =>
             ENABLED CloseSteps("stop")
        /\ stopPc = "finish" \/ (stopPc = "closing" /\ closePc["stop"] = "done")
             => ENABLED StopEnd)
  /\ [][stopCh' = "closed" /\ stopCh # "closed" => stopCh = "open"]_vars
  /\ [][StopEnd => ~running']_vars
  /\ [][StopStep /\ Stopped =>
          UNCHANGED <<running, stopCh, instNet, err, reasonVars, ctxDone,
                      conn>>]_vars

\* a second Stop is at its call of Close, on the session the first Stop
\* closed
C40_Witness ==
  /\ stopPc = "closing" /\ closePc["stop"] = "disconnect"
  /\ Stopped /\ stopCh = "closed" /\ instNet # NoNet
  /\ disconnectReason[instNet] = DisconnectClosed

====
